---- MODULE Spec2Model ----
(***************************************************************************)
(* A model of src/main.py: the Google Maps business scraper.               *)
(*                                                                         *)
(*   - clean_field, the Field Cleaner (a pure function on strings);        *)
(*   - gemini_generate, the AI Extractor's bounded retry loop;             *)
(*   - scrape_google_maps, the discovery (scroll) loop followed by the     *)
(*     extraction loop with de-duplication;                                *)
(*   - ScraperController, the two stop flags written by the UI thread.     *)
(*                                                                         *)
(* A Python string is a sequence of one-character strings; a character     *)
(* outside printable ASCII is written by its code point, as the element    *)
(* "U+00A0".                                                               *)
(***************************************************************************)
EXTENDS Integers, Sequences, FiniteSets, TLC

(***************************************************************************)
(* Python values that are not strings.                                     *)
(***************************************************************************)
\* Python's None (an absent value, a JSON null).
None == << "<None>" >>
\* A truthy value that is not a string (a JSON number, list or object).
NonStr == << "<nonstr>" >>

\* A key the JSON object does not have (dict.get then gives its default).
Missing == << "<missing>" >>
\* No value yet: the awaited call has not returned.
Pending == << "<pending>" >>

\* The characters line 87 removes: [U+200B-U+200D, U+FEFF].
ZeroWidth == {"U+200B", "U+200C", "U+200D", "U+FEFF"}
\* One of them, the zero-width space.
ZW == "U+200B"
\* The line break clean_field splits on.
NL == "\n"
\* The characters str.strip() removes and str.split('\n') keeps: those for
\* which str.isspace() holds, but the line feed.
Whitespace ==
    {" ", "\t", "\r", "\f", "U+000B", "U+001C", "U+001D", "U+001E", "U+001F",
     "U+0085", "U+00A0", "U+1680", "U+2000", "U+2001", "U+2002", "U+2003",
     "U+2004", "U+2005", "U+2006", "U+2007", "U+2008", "U+2009", "U+200A",
     "U+2028", "U+2029", "U+202F", "U+205F", "U+3000"}

(***************************************************************************)
(* Bounds of the model.                                                    *)
(***************************************************************************)
\* Longest input string given to clean_field in SpecClean.
MaxLen == 5
\* The alphabet of those inputs (U+00A0 is the no-break space).
CleanAlphabet == {"a", "b", " ", "U+00A0", NL, ZW}
\* The container of a short listing shows 0..MaxSmall cards.
MaxSmall == 2
\* The container of a long listing shows max_cards - 1 cards or
\* max_cards + CapExtra cards, the first CapFree of which behave in every
\* way.
CapExtra == 2
CapFree == 1

\* How many times Start is accepted in SpecUI (one worker thread each).
MaxRuns == 2
\* How many records one run accumulates at most in SpecUI.
MaxRunRecords == 1

(***************************************************************************)
(* String helpers (Python's str methods and re.sub, on sequences).         *)
(***************************************************************************)
RECURSIVE RemoveZeroWidth(_)
\* re.sub(r'[U+200B-U+200D, U+FEFF]', '', value)
RemoveZeroWidth(s) ==
    IF s = <<>> THEN <<>>
    ELSE IF Head(s) \in ZeroWidth THEN RemoveZeroWidth(Tail(s))
         ELSE <<Head(s)>> \o RemoveZeroWidth(Tail(s))

RECURSIVE LStrip(_)
LStrip(s) ==
    IF s = <<>> THEN <<>>
    ELSE IF Head(s) \in Whitespace \cup {NL} THEN LStrip(Tail(s)) ELSE s

RECURSIVE RStrip(_)
RStrip(s) ==
    IF s = <<>> THEN <<>>
    ELSE IF s[Len(s)] \in Whitespace \cup {NL}
         THEN RStrip(SubSeq(s, 1, Len(s) - 1)) ELSE s

\* str.strip()
Strip(s) == RStrip(LStrip(s))

RECURSIVE SplitLines(_, _)
\* value.split('\n'): cur is the line being read.
SplitLines(s, cur) ==
    IF s = <<>> THEN <<cur>>
    ELSE IF Head(s) = NL THEN <<cur>> \o SplitLines(Tail(s), <<>>)
         ELSE SplitLines(Tail(s), Append(cur, Head(s)))

RECURSIVE StrippedLines(_)
\* [line.strip() for line in parts if line.strip()]
StrippedLines(parts) ==
    IF parts = <<>> THEN <<>>
    ELSE IF Strip(Head(parts)) = <<>> THEN StrippedLines(Tail(parts))
         ELSE <<Strip(Head(parts))>> \o StrippedLines(Tail(parts))

RECURSIVE KeepLast(_)
\* A wrong duplicate removal: keeps the last occurrence of a line.
KeepLast(ls) ==
    IF ls = <<>> THEN <<>>
    ELSE IF \E i \in 2..Len(ls) : ls[i] = Head(ls) THEN KeepLast(Tail(ls))
         ELSE <<Head(ls)>> \o KeepLast(Tail(ls))

DedupLinesKeepLast(ls, seen) == KeepLast(ls)

RECURSIVE DedupLines(_, _)
\* [line for line in lines if not (line in seen or seen.add(line))]
DedupLines(ls, seen) ==
    IF ls = <<>> THEN <<>>
    ELSE IF Head(ls) \in seen THEN DedupLines(Tail(ls), seen)
         ELSE <<Head(ls)>> \o DedupLines(Tail(ls), seen \cup {Head(ls)})

RECURSIVE JoinSpace(_)
\* ' '.join(cleaned)
JoinSpace(ls) ==
    IF ls = <<>> THEN <<>>
    ELSE IF Len(ls) = 1 THEN Head(ls)
         ELSE Head(ls) \o <<" ">> \o JoinSpace(Tail(ls))

\* The element of a one-element set.  The(S) over {f(x) : x \in {e}} names
\* the value of e as x, the way a local of the function holds it.
The(S) == CHOOSE x \in S : TRUE

\* The local `lines` of clean_field: the non-blank lines, trimmed.
clean_lines(value) ==
    IF value = None \/ value = <<>> THEN <<>>
    ELSE The({StrippedLines(parts) :
                parts \in {SplitLines(v, <<>>) :
                    v \in {RemoveZeroWidth(given) : given \in {value}}}})

\* The local `cleaned` of clean_field.
clean_cleaned(value) ==
    The({DedupLines(lines, {}) : lines \in {clean_lines(value)}})

\* clean_field(value), for None and for strings.
clean_field(value) ==
    IF value = None \/ value = <<>> THEN <<>>
    ELSE The({Strip(joined) :
                joined \in {JoinSpace(cleaned) :
                    cleaned \in {clean_cleaned(value)}}})

\* The printable ASCII characters, from the space (32) to the tilde (126);
\* the grave accent (96) is written by its code point.
AsciiChars ==
    <<" ", "!", "\"", "#", "$", "%", "&", "'", "(", ")", "*", "+", ",", "-", ".",
      "/", "0", "1", "2", "3", "4", "5", "6", "7", "8", "9", ":", ";", "<", "=",
      ">", "?", "@", "A", "B", "C", "D", "E", "F", "G", "H", "I", "J", "K", "L",
      "M", "N", "O", "P", "Q", "R", "S", "T", "U", "V", "W", "X", "Y", "Z", "[",
      "\\", "]", "^", "_", "U+0060", "a", "b", "c", "d", "e", "f", "g", "h", "i",
      "j", "k", "l", "m", "n", "o", "p", "q", "r", "s", "t", "u", "v", "w", "x",
      "y", "z", "{", "|", "}", "~">>

RECURSIVE Hex(_, _)
\* The number n in hexadecimal, in `width` digits.
Hex(n, width) ==
    LET digits == <<"0", "1", "2", "3", "4", "5", "6", "7", "8", "9", "A", "B",
                    "C", "D", "E", "F">>
    IN  IF width = 0 THEN ""
        ELSE Hex(n \div 16, width - 1) \o digits[(n % 16) + 1]

\* chr(n), for a code point n from the space on: the character itself in
\* printable ASCII, "U+" and the hexadecimal code point elsewhere.
Chr(n) ==
    IF n \in 32..126 THEN AsciiChars[n - 31]
    ELSE "U+" \o Hex(n, IF n < 65536 THEN 4 ELSE 5)

\* The simple lower-case mapping of str.lower(), in runs <<first, last,
\* step, delta>>: each code point n = first, first + step .. last becomes
\* n + delta.  (The capital sigma, U+03A3, is not in the table: see
\* SigmaIsFinal; nor is I with dot above, U+0130, which becomes two
\* characters.)
LowerRuns ==
    {
      <<\h0041, \h005A, 1, 32>>, <<\h00C0, \h00D6, 1, 32>>,
      <<\h00D8, \h00DE, 1, 32>>, <<\h0100, \h012E, 2, 1>>,
      <<\h0132, \h0136, 2, 1>>, <<\h0139, \h0147, 2, 1>>,
      <<\h014A, \h0176, 2, 1>>, <<\h0178, \h0178, 1, -121>>,
      <<\h0179, \h017D, 2, 1>>, <<\h0181, \h0181, 1, 210>>,
      <<\h0182, \h0184, 2, 1>>, <<\h0186, \h0186, 1, 206>>,
      <<\h0187, \h0187, 1, 1>>, <<\h0189, \h018A, 1, 205>>,
      <<\h018B, \h018B, 1, 1>>, <<\h018E, \h018E, 1, 79>>,
      <<\h018F, \h018F, 1, 202>>, <<\h0190, \h0190, 1, 203>>,
      <<\h0191, \h0191, 1, 1>>, <<\h0193, \h0193, 1, 205>>,
      <<\h0194, \h0194, 1, 207>>, <<\h0196, \h0196, 1, 211>>,
      <<\h0197, \h0197, 1, 209>>, <<\h0198, \h0198, 1, 1>>,
      <<\h019C, \h019C, 1, 211>>, <<\h019D, \h019D, 1, 213>>,
      <<\h019F, \h019F, 1, 214>>, <<\h01A0, \h01A4, 2, 1>>,
      <<\h01A6, \h01A6, 1, 218>>, <<\h01A7, \h01A7, 1, 1>>,
      <<\h01A9, \h01A9, 1, 218>>, <<\h01AC, \h01AC, 1, 1>>,
      <<\h01AE, \h01AE, 1, 218>>, <<\h01AF, \h01AF, 1, 1>>,
      <<\h01B1, \h01B2, 1, 217>>, <<\h01B3, \h01B5, 2, 1>>,
      <<\h01B7, \h01B7, 1, 219>>, <<\h01B8, \h01B8, 1, 1>>,
      <<\h01BC, \h01BC, 1, 1>>, <<\h01C4, \h01C4, 1, 2>>,
      <<\h01C5, \h01C5, 1, 1>>, <<\h01C7, \h01C7, 1, 2>>,
      <<\h01C8, \h01C8, 1, 1>>, <<\h01CA, \h01CA, 1, 2>>,
      <<\h01CB, \h01DB, 2, 1>>, <<\h01DE, \h01EE, 2, 1>>,
      <<\h01F1, \h01F1, 1, 2>>, <<\h01F2, \h01F4, 2, 1>>,
      <<\h01F6, \h01F6, 1, -97>>, <<\h01F7, \h01F7, 1, -56>>,
      <<\h01F8, \h021E, 2, 1>>, <<\h0220, \h0220, 1, -130>>,
      <<\h0222, \h0232, 2, 1>>, <<\h023A, \h023A, 1, 10795>>,
      <<\h023B, \h023B, 1, 1>>, <<\h023D, \h023D, 1, -163>>,
      <<\h023E, \h023E, 1, 10792>>, <<\h0241, \h0241, 1, 1>>,
      <<\h0243, \h0243, 1, -195>>, <<\h0244, \h0244, 1, 69>>,
      <<\h0245, \h0245, 1, 71>>, <<\h0246, \h024E, 2, 1>>,
      <<\h0370, \h0372, 2, 1>>, <<\h0376, \h0376, 1, 1>>,
      <<\h037F, \h037F, 1, 116>>, <<\h0386, \h0386, 1, 38>>,
      <<\h0388, \h038A, 1, 37>>, <<\h038C, \h038C, 1, 64>>,
      <<\h038E, \h038F, 1, 63>>, <<\h0391, \h03A1, 1, 32>>,
      <<\h03A4, \h03AB, 1, 32>>, <<\h03CF, \h03CF, 1, 8>>,
      <<\h03D8, \h03EE, 2, 1>>, <<\h03F4, \h03F4, 1, -60>>,
      <<\h03F7, \h03F7, 1, 1>>, <<\h03F9, \h03F9, 1, -7>>,
      <<\h03FA, \h03FA, 1, 1>>, <<\h03FD, \h03FF, 1, -130>>,
      <<\h0400, \h040F, 1, 80>>, <<\h0410, \h042F, 1, 32>>,
      <<\h0460, \h0480, 2, 1>>, <<\h048A, \h04BE, 2, 1>>,
      <<\h04C0, \h04C0, 1, 15>>, <<\h04C1, \h04CD, 2, 1>>,
      <<\h04D0, \h052E, 2, 1>>, <<\h0531, \h0556, 1, 48>>,
      <<\h10A0, \h10C5, 1, 7264>>, <<\h10C7, \h10C7, 1, 7264>>,
      <<\h10CD, \h10CD, 1, 7264>>, <<\h13A0, \h13EF, 1, 38864>>,
      <<\h13F0, \h13F5, 1, 8>>, <<\h1C90, \h1CBA, 1, -3008>>,
      <<\h1CBD, \h1CBF, 1, -3008>>, <<\h1E00, \h1E94, 2, 1>>,
      <<\h1E9E, \h1E9E, 1, -7615>>, <<\h1EA0, \h1EFE, 2, 1>>,
      <<\h1F08, \h1F0F, 1, -8>>, <<\h1F18, \h1F1D, 1, -8>>,
      <<\h1F28, \h1F2F, 1, -8>>, <<\h1F38, \h1F3F, 1, -8>>,
      <<\h1F48, \h1F4D, 1, -8>>, <<\h1F59, \h1F5F, 2, -8>>,
      <<\h1F68, \h1F6F, 1, -8>>, <<\h1F88, \h1F8F, 1, -8>>,
      <<\h1F98, \h1F9F, 1, -8>>, <<\h1FA8, \h1FAF, 1, -8>>,
      <<\h1FB8, \h1FB9, 1, -8>>, <<\h1FBA, \h1FBB, 1, -74>>,
      <<\h1FBC, \h1FBC, 1, -9>>, <<\h1FC8, \h1FCB, 1, -86>>,
      <<\h1FCC, \h1FCC, 1, -9>>, <<\h1FD8, \h1FD9, 1, -8>>,
      <<\h1FDA, \h1FDB, 1, -100>>, <<\h1FE8, \h1FE9, 1, -8>>,
      <<\h1FEA, \h1FEB, 1, -112>>, <<\h1FEC, \h1FEC, 1, -7>>,
      <<\h1FF8, \h1FF9, 1, -128>>, <<\h1FFA, \h1FFB, 1, -126>>,
      <<\h1FFC, \h1FFC, 1, -9>>, <<\h2126, \h2126, 1, -7517>>,
      <<\h212A, \h212A, 1, -8383>>, <<\h212B, \h212B, 1, -8262>>,
      <<\h2132, \h2132, 1, 28>>, <<\h2160, \h216F, 1, 16>>,
      <<\h2183, \h2183, 1, 1>>, <<\h24B6, \h24CF, 1, 26>>,
      <<\h2C00, \h2C2F, 1, 48>>, <<\h2C60, \h2C60, 1, 1>>,
      <<\h2C62, \h2C62, 1, -10743>>, <<\h2C63, \h2C63, 1, -3814>>,
      <<\h2C64, \h2C64, 1, -10727>>, <<\h2C67, \h2C6B, 2, 1>>,
      <<\h2C6D, \h2C6D, 1, -10780>>, <<\h2C6E, \h2C6E, 1, -10749>>,
      <<\h2C6F, \h2C6F, 1, -10783>>, <<\h2C70, \h2C70, 1, -10782>>,
      <<\h2C72, \h2C72, 1, 1>>, <<\h2C75, \h2C75, 1, 1>>,
      <<\h2C7E, \h2C7F, 1, -10815>>, <<\h2C80, \h2CE2, 2, 1>>,
      <<\h2CEB, \h2CED, 2, 1>>, <<\h2CF2, \h2CF2, 1, 1>>,
      <<\hA640, \hA66C, 2, 1>>, <<\hA680, \hA69A, 2, 1>>,
      <<\hA722, \hA72E, 2, 1>>, <<\hA732, \hA76E, 2, 1>>,
      <<\hA779, \hA77B, 2, 1>>, <<\hA77D, \hA77D, 1, -35332>>,
      <<\hA77E, \hA786, 2, 1>>, <<\hA78B, \hA78B, 1, 1>>,
      <<\hA78D, \hA78D, 1, -42280>>, <<\hA790, \hA792, 2, 1>>,
      <<\hA796, \hA7A8, 2, 1>>, <<\hA7AA, \hA7AA, 1, -42308>>,
      <<\hA7AB, \hA7AB, 1, -42319>>, <<\hA7AC, \hA7AC, 1, -42315>>,
      <<\hA7AD, \hA7AD, 1, -42305>>, <<\hA7AE, \hA7AE, 1, -42308>>,
      <<\hA7B0, \hA7B0, 1, -42258>>, <<\hA7B1, \hA7B1, 1, -42282>>,
      <<\hA7B2, \hA7B2, 1, -42261>>, <<\hA7B3, \hA7B3, 1, 928>>,
      <<\hA7B4, \hA7C2, 2, 1>>, <<\hA7C4, \hA7C4, 1, -48>>,
      <<\hA7C5, \hA7C5, 1, -42307>>, <<\hA7C6, \hA7C6, 1, -35384>>,
      <<\hA7C7, \hA7C9, 2, 1>>, <<\hA7D0, \hA7D0, 1, 1>>,
      <<\hA7D6, \hA7D8, 2, 1>>, <<\hA7F5, \hA7F5, 1, 1>>,
      <<\hFF21, \hFF3A, 1, 32>>, <<\h10400, \h10427, 1, 40>>,
      <<\h104B0, \h104D3, 1, 40>>, <<\h10570, \h10594, 2, 39>>,
      <<\h10571, \h10579, 2, 39>>, <<\h1057D, \h10589, 2, 39>>,
      <<\h1058D, \h10591, 2, 39>>, <<\h10595, \h10595, 1, 39>>,
      <<\h10C80, \h10CB2, 1, 64>>, <<\h118A0, \h118BF, 1, 32>>,
      <<\h16E40, \h16E5F, 1, 32>>, <<\h1E900, \h1E921, 1, 34>>
    }

\* The pairs <<c, what str.lower() puts for c>> of the characters
\* str.lower() changes, but the capital sigma.
LowerPairs ==
    UNION {{<<Chr(n), <<Chr(n + r[4])>>>> :
                n \in {m \in r[1]..r[2] : (m - r[1]) % r[3] = 0}} :
              r \in LowerRuns}
      \cup {<<"U+0130", <<"i", "U+0307">>>>}

\* What str.lower() puts for each character it changes but the capital
\* sigma: the lower-case letter, and for I with dot above (U+0130) the two
\* characters i, combining dot (U+0307).
LowerOf ==
    [c \in {p[1] : p \in LowerPairs} |->
        (CHOOSE p \in LowerPairs : p[1] = c)[2]]

\* The ranges <<first, last>> of the code points with the Unicode property
\* Cased (the lower-case, upper-case and title-case letters).
CasedRanges ==
    {
      <<\h0041, \h005A>>, <<\h0061, \h007A>>, <<\h00AA, \h00AA>>,
      <<\h00B5, \h00B5>>, <<\h00BA, \h00BA>>, <<\h00C0, \h00D6>>,
      <<\h00D8, \h00F6>>, <<\h00F8, \h01BA>>, <<\h01BC, \h01BF>>,
      <<\h01C4, \h0293>>, <<\h0295, \h02B8>>, <<\h02C0, \h02C1>>,
      <<\h02E0, \h02E4>>, <<\h0345, \h0345>>, <<\h0370, \h0373>>,
      <<\h0376, \h0377>>, <<\h037A, \h037D>>, <<\h037F, \h037F>>,
      <<\h0386, \h0386>>, <<\h0388, \h038A>>, <<\h038C, \h038C>>,
      <<\h038E, \h03A1>>, <<\h03A3, \h03F5>>, <<\h03F7, \h0481>>,
      <<\h048A, \h052F>>, <<\h0531, \h0556>>, <<\h0560, \h0588>>,
      <<\h10A0, \h10C5>>, <<\h10C7, \h10C7>>, <<\h10CD, \h10CD>>,
      <<\h10D0, \h10FA>>, <<\h10FD, \h10FF>>, <<\h13A0, \h13F5>>,
      <<\h13F8, \h13FD>>, <<\h1C80, \h1C88>>, <<\h1C90, \h1CBA>>,
      <<\h1CBD, \h1CBF>>, <<\h1D00, \h1DBF>>, <<\h1E00, \h1F15>>,
      <<\h1F18, \h1F1D>>, <<\h1F20, \h1F45>>, <<\h1F48, \h1F4D>>,
      <<\h1F50, \h1F57>>, <<\h1F59, \h1F59>>, <<\h1F5B, \h1F5B>>,
      <<\h1F5D, \h1F5D>>, <<\h1F5F, \h1F7D>>, <<\h1F80, \h1FB4>>,
      <<\h1FB6, \h1FBC>>, <<\h1FBE, \h1FBE>>, <<\h1FC2, \h1FC4>>,
      <<\h1FC6, \h1FCC>>, <<\h1FD0, \h1FD3>>, <<\h1FD6, \h1FDB>>,
      <<\h1FE0, \h1FEC>>, <<\h1FF2, \h1FF4>>, <<\h1FF6, \h1FFC>>,
      <<\h2071, \h2071>>, <<\h207F, \h207F>>, <<\h2090, \h209C>>,
      <<\h2102, \h2102>>, <<\h2107, \h2107>>, <<\h210A, \h2113>>,
      <<\h2115, \h2115>>, <<\h2119, \h211D>>, <<\h2124, \h2124>>,
      <<\h2126, \h2126>>, <<\h2128, \h2128>>, <<\h212A, \h212D>>,
      <<\h212F, \h2134>>, <<\h2139, \h2139>>, <<\h213C, \h213F>>,
      <<\h2145, \h2149>>, <<\h214E, \h214E>>, <<\h2160, \h217F>>,
      <<\h2183, \h2184>>, <<\h24B6, \h24E9>>, <<\h2C00, \h2CE4>>,
      <<\h2CEB, \h2CEE>>, <<\h2CF2, \h2CF3>>, <<\h2D00, \h2D25>>,
      <<\h2D27, \h2D27>>, <<\h2D2D, \h2D2D>>, <<\hA640, \hA66D>>,
      <<\hA680, \hA69D>>, <<\hA722, \hA787>>, <<\hA78B, \hA78E>>,
      <<\hA790, \hA7CA>>, <<\hA7D0, \hA7D1>>, <<\hA7D3, \hA7D3>>,
      <<\hA7D5, \hA7D9>>, <<\hA7F5, \hA7F6>>, <<\hA7F8, \hA7FA>>,
      <<\hAB30, \hAB5A>>, <<\hAB5C, \hAB68>>, <<\hAB70, \hABBF>>,
      <<\hFB00, \hFB06>>, <<\hFB13, \hFB17>>, <<\hFF21, \hFF3A>>,
      <<\hFF41, \hFF5A>>, <<\h10400, \h1044F>>, <<\h104B0, \h104D3>>,
      <<\h104D8, \h104FB>>, <<\h10570, \h1057A>>, <<\h1057C, \h1058A>>,
      <<\h1058C, \h10592>>, <<\h10594, \h10595>>, <<\h10597, \h105A1>>,
      <<\h105A3, \h105B1>>, <<\h105B3, \h105B9>>, <<\h105BB, \h105BC>>,
      <<\h10780, \h10780>>, <<\h10783, \h10785>>, <<\h10787, \h107B0>>,
      <<\h107B2, \h107BA>>, <<\h10C80, \h10CB2>>, <<\h10CC0, \h10CF2>>,
      <<\h118A0, \h118DF>>, <<\h16E40, \h16E7F>>, <<\h1D400, \h1D454>>,
      <<\h1D456, \h1D49C>>, <<\h1D49E, \h1D49F>>, <<\h1D4A2, \h1D4A2>>,
      <<\h1D4A5, \h1D4A6>>, <<\h1D4A9, \h1D4AC>>, <<\h1D4AE, \h1D4B9>>,
      <<\h1D4BB, \h1D4BB>>, <<\h1D4BD, \h1D4C3>>, <<\h1D4C5, \h1D505>>,
      <<\h1D507, \h1D50A>>, <<\h1D50D, \h1D514>>, <<\h1D516, \h1D51C>>,
      <<\h1D51E, \h1D539>>, <<\h1D53B, \h1D53E>>, <<\h1D540, \h1D544>>,
      <<\h1D546, \h1D546>>, <<\h1D54A, \h1D550>>, <<\h1D552, \h1D6A5>>,
      <<\h1D6A8, \h1D6C0>>, <<\h1D6C2, \h1D6DA>>, <<\h1D6DC, \h1D6FA>>,
      <<\h1D6FC, \h1D714>>, <<\h1D716, \h1D734>>, <<\h1D736, \h1D74E>>,
      <<\h1D750, \h1D76E>>, <<\h1D770, \h1D788>>, <<\h1D78A, \h1D7A8>>,
      <<\h1D7AA, \h1D7C2>>, <<\h1D7C4, \h1D7CB>>, <<\h1DF00, \h1DF09>>,
      <<\h1DF0B, \h1DF1E>>, <<\h1E900, \h1E943>>, <<\h1F130, \h1F149>>,
      <<\h1F150, \h1F169>>, <<\h1F170, \h1F189>>
    }

\* The characters with the property Cased.
Cased == UNION {{Chr(n) : n \in r[1]..r[2]} : r \in CasedRanges}

\* The ranges <<first, last>> of the code points with the Unicode property
\* Case_Ignorable (marks, format characters, modifier letters and symbols,
\* and the apostrophe, full stop, colon and their like).
CaseIgnorableRanges ==
    {
      <<\h0027, \h0027>>, <<\h002E, \h002E>>, <<\h003A, \h003A>>,
      <<\h005E, \h005E>>, <<\h0060, \h0060>>, <<\h00A8, \h00A8>>,
      <<\h00AD, \h00AD>>, <<\h00AF, \h00AF>>, <<\h00B4, \h00B4>>,
      <<\h00B7, \h00B8>>, <<\h02B0, \h036F>>, <<\h0374, \h0375>>,
      <<\h037A, \h037A>>, <<\h0384, \h0385>>, <<\h0387, \h0387>>,
      <<\h0483, \h0489>>, <<\h0559, \h0559>>, <<\h055F, \h055F>>,
      <<\h0591, \h05BD>>, <<\h05BF, \h05BF>>, <<\h05C1, \h05C2>>,
      <<\h05C4, \h05C5>>, <<\h05C7, \h05C7>>, <<\h05F4, \h05F4>>,
      <<\h0600, \h0605>>, <<\h0610, \h061A>>, <<\h061C, \h061C>>,
      <<\h0640, \h0640>>, <<\h064B, \h065F>>, <<\h0670, \h0670>>,
      <<\h06D6, \h06DD>>, <<\h06DF, \h06E8>>, <<\h06EA, \h06ED>>,
      <<\h070F, \h070F>>, <<\h0711, \h0711>>, <<\h0730, \h074A>>,
      <<\h07A6, \h07B0>>, <<\h07EB, \h07F5>>, <<\h07FA, \h07FA>>,
      <<\h07FD, \h07FD>>, <<\h0816, \h082D>>, <<\h0859, \h085B>>,
      <<\h0888, \h0888>>, <<\h0890, \h0891>>, <<\h0898, \h089F>>,
      <<\h08C9, \h0902>>, <<\h093A, \h093A>>, <<\h093C, \h093C>>,
      <<\h0941, \h0948>>, <<\h094D, \h094D>>, <<\h0951, \h0957>>,
      <<\h0962, \h0963>>, <<\h0971, \h0971>>, <<\h0981, \h0981>>,
      <<\h09BC, \h09BC>>, <<\h09C1, \h09C4>>, <<\h09CD, \h09CD>>,
      <<\h09E2, \h09E3>>, <<\h09FE, \h09FE>>, <<\h0A01, \h0A02>>,
      <<\h0A3C, \h0A3C>>, <<\h0A41, \h0A42>>, <<\h0A47, \h0A48>>,
      <<\h0A4B, \h0A4D>>, <<\h0A51, \h0A51>>, <<\h0A70, \h0A71>>,
      <<\h0A75, \h0A75>>, <<\h0A81, \h0A82>>, <<\h0ABC, \h0ABC>>,
      <<\h0AC1, \h0AC5>>, <<\h0AC7, \h0AC8>>, <<\h0ACD, \h0ACD>>,
      <<\h0AE2, \h0AE3>>, <<\h0AFA, \h0AFF>>, <<\h0B01, \h0B01>>,
      <<\h0B3C, \h0B3C>>, <<\h0B3F, \h0B3F>>, <<\h0B41, \h0B44>>,
      <<\h0B4D, \h0B4D>>, <<\h0B55, \h0B56>>, <<\h0B62, \h0B63>>,
      <<\h0B82, \h0B82>>, <<\h0BC0, \h0BC0>>, <<\h0BCD, \h0BCD>>,
      <<\h0C00, \h0C00>>, <<\h0C04, \h0C04>>, <<\h0C3C, \h0C3C>>,
      <<\h0C3E, \h0C40>>, <<\h0C46, \h0C48>>, <<\h0C4A, \h0C4D>>,
      <<\h0C55, \h0C56>>, <<\h0C62, \h0C63>>, <<\h0C81, \h0C81>>,
      <<\h0CBC, \h0CBC>>, <<\h0CBF, \h0CBF>>, <<\h0CC6, \h0CC6>>,
      <<\h0CCC, \h0CCD>>, <<\h0CE2, \h0CE3>>, <<\h0D00, \h0D01>>,
      <<\h0D3B, \h0D3C>>, <<\h0D41, \h0D44>>, <<\h0D4D, \h0D4D>>,
      <<\h0D62, \h0D63>>, <<\h0D81, \h0D81>>, <<\h0DCA, \h0DCA>>,
      <<\h0DD2, \h0DD4>>, <<\h0DD6, \h0DD6>>, <<\h0E31, \h0E31>>,
      <<\h0E34, \h0E3A>>, <<\h0E46, \h0E4E>>, <<\h0EB1, \h0EB1>>,
      <<\h0EB4, \h0EBC>>, <<\h0EC6, \h0EC6>>, <<\h0EC8, \h0ECD>>,
      <<\h0F18, \h0F19>>, <<\h0F35, \h0F35>>, <<\h0F37, \h0F37>>,
      <<\h0F39, \h0F39>>, <<\h0F71, \h0F7E>>, <<\h0F80, \h0F84>>,
      <<\h0F86, \h0F87>>, <<\h0F8D, \h0F97>>, <<\h0F99, \h0FBC>>,
      <<\h0FC6, \h0FC6>>, <<\h102D, \h1030>>, <<\h1032, \h1037>>,
      <<\h1039, \h103A>>, <<\h103D, \h103E>>, <<\h1058, \h1059>>,
      <<\h105E, \h1060>>, <<\h1071, \h1074>>, <<\h1082, \h1082>>,
      <<\h1085, \h1086>>, <<\h108D, \h108D>>, <<\h109D, \h109D>>,
      <<\h10FC, \h10FC>>, <<\h135D, \h135F>>, <<\h1712, \h1714>>,
      <<\h1732, \h1733>>, <<\h1752, \h1753>>, <<\h1772, \h1773>>,
      <<\h17B4, \h17B5>>, <<\h17B7, \h17BD>>, <<\h17C6, \h17C6>>,
      <<\h17C9, \h17D3>>, <<\h17D7, \h17D7>>, <<\h17DD, \h17DD>>,
      <<\h180B, \h180F>>, <<\h1843, \h1843>>, <<\h1885, \h1886>>,
      <<\h18A9, \h18A9>>, <<\h1920, \h1922>>, <<\h1927, \h1928>>,
      <<\h1932, \h1932>>, <<\h1939, \h193B>>, <<\h1A17, \h1A18>>,
      <<\h1A1B, \h1A1B>>, <<\h1A56, \h1A56>>, <<\h1A58, \h1A5E>>,
      <<\h1A60, \h1A60>>, <<\h1A62, \h1A62>>, <<\h1A65, \h1A6C>>,
      <<\h1A73, \h1A7C>>, <<\h1A7F, \h1A7F>>, <<\h1AA7, \h1AA7>>,
      <<\h1AB0, \h1ACE>>, <<\h1B00, \h1B03>>, <<\h1B34, \h1B34>>,
      <<\h1B36, \h1B3A>>, <<\h1B3C, \h1B3C>>, <<\h1B42, \h1B42>>,
      <<\h1B6B, \h1B73>>, <<\h1B80, \h1B81>>, <<\h1BA2, \h1BA5>>,
      <<\h1BA8, \h1BA9>>, <<\h1BAB, \h1BAD>>, <<\h1BE6, \h1BE6>>,
      <<\h1BE8, \h1BE9>>, <<\h1BED, \h1BED>>, <<\h1BEF, \h1BF1>>,
      <<\h1C2C, \h1C33>>, <<\h1C36, \h1C37>>, <<\h1C78, \h1C7D>>,
      <<\h1CD0, \h1CD2>>, <<\h1CD4, \h1CE0>>, <<\h1CE2, \h1CE8>>,
      <<\h1CED, \h1CED>>, <<\h1CF4, \h1CF4>>, <<\h1CF8, \h1CF9>>,
      <<\h1D2C, \h1D6A>>, <<\h1D78, \h1D78>>, <<\h1D9B, \h1DFF>>,
      <<\h1FBD, \h1FBD>>, <<\h1FBF, \h1FC1>>, <<\h1FCD, \h1FCF>>,
      <<\h1FDD, \h1FDF>>, <<\h1FED, \h1FEF>>, <<\h1FFD, \h1FFE>>,
      <<\h200B, \h200F>>, <<\h2018, \h2019>>, <<\h2024, \h2024>>,
      <<\h2027, \h2027>>, <<\h202A, \h202E>>, <<\h2060, \h2064>>,
      <<\h2066, \h206F>>, <<\h2071, \h2071>>, <<\h207F, \h207F>>,
      <<\h2090, \h209C>>, <<\h20D0, \h20F0>>, <<\h2C7C, \h2C7D>>,
      <<\h2CEF, \h2CF1>>, <<\h2D6F, \h2D6F>>, <<\h2D7F, \h2D7F>>,
      <<\h2DE0, \h2DFF>>, <<\h2E2F, \h2E2F>>, <<\h3005, \h3005>>,
      <<\h302A, \h302D>>, <<\h3031, \h3035>>, <<\h303B, \h303B>>,
      <<\h3099, \h309E>>, <<\h30FC, \h30FE>>, <<\hA015, \hA015>>,
      <<\hA4F8, \hA4FD>>, <<\hA60C, \hA60C>>, <<\hA66F, \hA672>>,
      <<\hA674, \hA67D>>, <<\hA67F, \hA67F>>, <<\hA69C, \hA69F>>,
      <<\hA6F0, \hA6F1>>, <<\hA700, \hA721>>, <<\hA770, \hA770>>,
      <<\hA788, \hA78A>>, <<\hA7F2, \hA7F4>>, <<\hA7F8, \hA7F9>>,
      <<\hA802, \hA802>>, <<\hA806, \hA806>>, <<\hA80B, \hA80B>>,
      <<\hA825, \hA826>>, <<\hA82C, \hA82C>>, <<\hA8C4, \hA8C5>>,
      <<\hA8E0, \hA8F1>>, <<\hA8FF, \hA8FF>>, <<\hA926, \hA92D>>,
      <<\hA947, \hA951>>, <<\hA980, \hA982>>, <<\hA9B3, \hA9B3>>,
      <<\hA9B6, \hA9B9>>, <<\hA9BC, \hA9BD>>, <<\hA9CF, \hA9CF>>,
      <<\hA9E5, \hA9E6>>, <<\hAA29, \hAA2E>>, <<\hAA31, \hAA32>>,
      <<\hAA35, \hAA36>>, <<\hAA43, \hAA43>>, <<\hAA4C, \hAA4C>>,
      <<\hAA70, \hAA70>>, <<\hAA7C, \hAA7C>>, <<\hAAB0, \hAAB0>>,
      <<\hAAB2, \hAAB4>>, <<\hAAB7, \hAAB8>>, <<\hAABE, \hAABF>>,
      <<\hAAC1, \hAAC1>>, <<\hAADD, \hAADD>>, <<\hAAEC, \hAAED>>,
      <<\hAAF3, \hAAF4>>, <<\hAAF6, \hAAF6>>, <<\hAB5B, \hAB5F>>,
      <<\hAB69, \hAB6B>>, <<\hABE5, \hABE5>>, <<\hABE8, \hABE8>>,
      <<\hABED, \hABED>>, <<\hFB1E, \hFB1E>>, <<\hFBB2, \hFBC2>>,
      <<\hFE00, \hFE0F>>, <<\hFE13, \hFE13>>, <<\hFE20, \hFE2F>>,
      <<\hFE52, \hFE52>>, <<\hFE55, \hFE55>>, <<\hFEFF, \hFEFF>>,
      <<\hFF07, \hFF07>>, <<\hFF0E, \hFF0E>>, <<\hFF1A, \hFF1A>>,
      <<\hFF3E, \hFF3E>>, <<\hFF40, \hFF40>>, <<\hFF70, \hFF70>>,
      <<\hFF9E, \hFF9F>>, <<\hFFE3, \hFFE3>>, <<\hFFF9, \hFFFB>>,
      <<\h101FD, \h101FD>>, <<\h102E0, \h102E0>>, <<\h10376, \h1037A>>,
      <<\h10780, \h10785>>, <<\h10787, \h107B0>>, <<\h107B2, \h107BA>>,
      <<\h10A01, \h10A03>>, <<\h10A05, \h10A06>>, <<\h10A0C, \h10A0F>>,
      <<\h10A38, \h10A3A>>, <<\h10A3F, \h10A3F>>, <<\h10AE5, \h10AE6>>,
      <<\h10D24, \h10D27>>, <<\h10EAB, \h10EAC>>, <<\h10F46, \h10F50>>,
      <<\h10F82, \h10F85>>, <<\h11001, \h11001>>, <<\h11038, \h11046>>,
      <<\h11070, \h11070>>, <<\h11073, \h11074>>, <<\h1107F, \h11081>>,
      <<\h110B3, \h110B6>>, <<\h110B9, \h110BA>>, <<\h110BD, \h110BD>>,
      <<\h110C2, \h110C2>>, <<\h110CD, \h110CD>>, <<\h11100, \h11102>>,
      <<\h11127, \h1112B>>, <<\h1112D, \h11134>>, <<\h11173, \h11173>>,
      <<\h11180, \h11181>>, <<\h111B6, \h111BE>>, <<\h111C9, \h111CC>>,
      <<\h111CF, \h111CF>>, <<\h1122F, \h11231>>, <<\h11234, \h11234>>,
      <<\h11236, \h11237>>, <<\h1123E, \h1123E>>, <<\h112DF, \h112DF>>,
      <<\h112E3, \h112EA>>, <<\h11300, \h11301>>, <<\h1133B, \h1133C>>,
      <<\h11340, \h11340>>, <<\h11366, \h1136C>>, <<\h11370, \h11374>>,
      <<\h11438, \h1143F>>, <<\h11442, \h11444>>, <<\h11446, \h11446>>,
      <<\h1145E, \h1145E>>, <<\h114B3, \h114B8>>, <<\h114BA, \h114BA>>,
      <<\h114BF, \h114C0>>, <<\h114C2, \h114C3>>, <<\h115B2, \h115B5>>,
      <<\h115BC, \h115BD>>, <<\h115BF, \h115C0>>, <<\h115DC, \h115DD>>,
      <<\h11633, \h1163A>>, <<\h1163D, \h1163D>>, <<\h1163F, \h11640>>,
      <<\h116AB, \h116AB>>, <<\h116AD, \h116AD>>, <<\h116B0, \h116B5>>,
      <<\h116B7, \h116B7>>, <<\h1171D, \h1171F>>, <<\h11722, \h11725>>,
      <<\h11727, \h1172B>>, <<\h1182F, \h11837>>, <<\h11839, \h1183A>>,
      <<\h1193B, \h1193C>>, <<\h1193E, \h1193E>>, <<\h11943, \h11943>>,
      <<\h119D4, \h119D7>>, <<\h119DA, \h119DB>>, <<\h119E0, \h119E0>>,
      <<\h11A01, \h11A0A>>, <<\h11A33, \h11A38>>, <<\h11A3B, \h11A3E>>,
      <<\h11A47, \h11A47>>, <<\h11A51, \h11A56>>, <<\h11A59, \h11A5B>>,
      <<\h11A8A, \h11A96>>, <<\h11A98, \h11A99>>, <<\h11C30, \h11C36>>,
      <<\h11C38, \h11C3D>>, <<\h11C3F, \h11C3F>>, <<\h11C92, \h11CA7>>,
      <<\h11CAA, \h11CB0>>, <<\h11CB2, \h11CB3>>, <<\h11CB5, \h11CB6>>,
      <<\h11D31, \h11D36>>, <<\h11D3A, \h11D3A>>, <<\h11D3C, \h11D3D>>,
      <<\h11D3F, \h11D45>>, <<\h11D47, \h11D47>>, <<\h11D90, \h11D91>>,
      <<\h11D95, \h11D95>>, <<\h11D97, \h11D97>>, <<\h11EF3, \h11EF4>>,
      <<\h13430, \h13438>>, <<\h16AF0, \h16AF4>>, <<\h16B30, \h16B36>>,
      <<\h16B40, \h16B43>>, <<\h16F4F, \h16F4F>>, <<\h16F8F, \h16F9F>>,
      <<\h16FE0, \h16FE1>>, <<\h16FE3, \h16FE4>>, <<\h1AFF0, \h1AFF3>>,
      <<\h1AFF5, \h1AFFB>>, <<\h1AFFD, \h1AFFE>>, <<\h1BC9D, \h1BC9E>>,
      <<\h1BCA0, \h1BCA3>>, <<\h1CF00, \h1CF2D>>, <<\h1CF30, \h1CF46>>,
      <<\h1D167, \h1D169>>, <<\h1D173, \h1D182>>, <<\h1D185, \h1D18B>>,
      <<\h1D1AA, \h1D1AD>>, <<\h1D242, \h1D244>>, <<\h1DA00, \h1DA36>>,
      <<\h1DA3B, \h1DA6C>>, <<\h1DA75, \h1DA75>>, <<\h1DA84, \h1DA84>>,
      <<\h1DA9B, \h1DA9F>>, <<\h1DAA1, \h1DAAF>>, <<\h1E000, \h1E006>>,
      <<\h1E008, \h1E018>>, <<\h1E01B, \h1E021>>, <<\h1E023, \h1E024>>,
      <<\h1E026, \h1E02A>>, <<\h1E130, \h1E13D>>, <<\h1E2AE, \h1E2AE>>,
      <<\h1E2EC, \h1E2EF>>, <<\h1E8D0, \h1E8D6>>, <<\h1E944, \h1E94B>>,
      <<\h1F3FB, \h1F3FF>>, <<\hE0001, \hE0001>>, <<\hE0020, \hE007F>>,
      <<\hE0100, \hE01EF>>
    }

\* The characters with the property Case_Ignorable.
CaseIgnorable ==
    UNION {{Chr(n) : n \in r[1]..r[2]} : r \in CaseIgnorableRanges}

\* The capital sigma at s[i] ends a word: the nearest character before it
\* that is not case-ignorable is a cased letter, and the nearest one after
\* it, if there is one, is not.
SigmaIsFinal(s, i) ==
    LET Skipped(c) == c \in CaseIgnorable
    IN  /\ \E j \in 1..(i - 1) :
              /\ ~Skipped(s[j])
              /\ s[j] \in Cased
              /\ \A k \in (j + 1)..(i - 1) : Skipped(s[k])
        /\ ~\E j \in (i + 1)..Len(s) :
              /\ ~Skipped(s[j])
              /\ s[j] \in Cased
              /\ \A k \in (i + 1)..(j - 1) : Skipped(s[k])

\* What str.lower() puts for the character s[i].
LowerAt(s, i) ==
    IF s[i] = "U+03A3"
    THEN <<IF SigmaIsFinal(s, i) THEN "U+03C2" ELSE "U+03C3">>
    ELSE IF s[i] \in DOMAIN LowerOf THEN LowerOf[s[i]] ELSE <<s[i]>>

RECURSIVE LowerFrom(_, _)
\* The lower-cased characters of s from s[i] on.
LowerFrom(s, i) ==
    IF i > Len(s) THEN <<>> ELSE LowerAt(s, i) \o LowerFrom(s, i + 1)

\* str.lower()
Lower(s) == LowerFrom(s, 1)

\* str.startswith(prefix)
StartsWith(s, prefix) ==
    Len(s) >= Len(prefix) /\ SubSeq(s, 1, Len(prefix)) = prefix

\* re.search(r'@', s)
HasAt(s) == \E i \in 1..Len(s) : s[i] = "@"

RECURSIVE Replace(_, _)
\* s.replace(old, '')
Replace(s, old) ==
    IF s = <<>> THEN <<>>
    ELSE IF StartsWith(s, old) THEN Replace(SubSeq(s, Len(old) + 1, Len(s)), old)
         ELSE <<Head(s)>> \o Replace(Tail(s), old)

RECURSIVE StringsUpTo(_, _)
\* All strings over alphabet A of length at most n.
StringsUpTo(A, n) ==
    IF n = 0 THEN {<<>>}
    ELSE LET S == StringsUpTo(A, n - 1)
         IN  S \cup {Append(s, c) : s \in {t \in S : Len(t) = n - 1}, c \in A}

(***************************************************************************)
(* gemini_generate: the values of the AI endpoint.                         *)
(***************************************************************************)
\* max_attempts of gemini_generate.
max_attempts == 7

\* The six keys of the JSON object, in the order the fields are read.  A
\* parsed object is the tuple of its values for these keys (Missing for a
\* key it does not have), followed, when it has other keys, by the set of
\* those as a seventh element.
FieldKeys == <<"Business Name", "Business Type", "Address", "Phone Number",
               "Email", "Website">>

\* The object {}.
EmptyDict == [k \in 1..6 |-> Missing]

\* `if gemini_data:` - neither None nor an empty dict.
Truthy(obj) == obj # None /\ obj # EmptyDict

\* gemini_data.get(key, '')
DictGet(obj, k) == IF obj[k] = Missing THEN <<>> ELSE obj[k]

\* What one request can end in: the exception client.post or
\* raise_for_status raises, or the kind of reply text received.
FailureOutcomes == {"timeout", "http_429", "http_error", "exception"}
ReplyOutcomes == {"no_json", "bad_json", "object"}

(***************************************************************************)
(* The texts the page, the AI endpoint and the secondary site can give.    *)
(***************************************************************************)
\* "A" and N with tilde, and the same name in small letters.
sAn      == <<"A", "U+00D1">>
sAnNoisy == <<"a", "U+00F1", NL, ZW, "a", "U+00F1", " ">>
sCafe    == <<"c">>
sPhone   == <<"5">>
sMail    == <<"e", "@", "x">>
sHttp    == <<"h", "t", "t", "p", "x">>
sHTTP    == <<"H", "T", "T", "P", "x">>
sGmail   == <<"g", "@", "m">>

RECURSIVE Digits(_)
\* str(n) for n >= 0, as a string of the model.
Digits(n) ==
    IF n < 10 THEN <<Chr(48 + n)>>
    ELSE Append(Digits(n \div 10), Chr(48 + (n % 10)))

\* The object of the spec's scenario: six fields, an empty Email and an
\* absolute Website.
objAcme == <<sAn, sCafe, <<>>, sPhone, <<>>, sHttp>>
\* The same business in another spelling: repeated lines, a JSON null, no
\* Email key and an upper-case URL.
objNoisy == <<sAnNoisy, sCafe, None, sPhone, Missing, sHTTP>>
\* An object that already gives an Email.
objMail == <<sAn, sCafe, <<>>, sPhone, sMail, sHttp>>
\* An object whose Business Name is a number.
objNumber == <<NonStr, sCafe, <<>>, sPhone, <<>>, sHttp>>

\* An object with none of the six keys and two others.
objOtherKeys == Append(EmptyDict, {"name", "phone"})

\* The objects a reply of the endpoint can parse to.
AIObjects == {objAcme, objNoisy, objMail, objNumber, objOtherKeys, EmptyDict}

\* The object the endpoint gives for the listing item idx outside the
\* items whose behaviour is left open: a business named after idx.
FillerObject(i) == <<<<"n">> \o Digits(i), <<>>, <<>>, <<>>, <<>>, <<>>>>

(***************************************************************************)
(* The Heuristic Extractor (lines 222-239) on a detail view.  A view gives, *)
(* for each selector list, the inner texts of the elements it matches, the *)
(* href of the first outside link and of the first mailto link (None when  *)
(* there is none), and the matches of the two regular expressions in the   *)
(* page text.                                                              *)
(***************************************************************************)
sMailto == <<"m", "a", "i", "l", "t", "o", ":">>

\* A detail view with the texts of the Acme scenario.
viewAcme ==
    [title |-> <<sAn>>, category |-> <<sCafe>>, address |-> <<>>,
     phone |-> <<>>, phone_matches |-> <<sPhone>>,
     website |-> <<sHttp>>, link_href |-> None,
     mailto_href |-> None, email_matches |-> <<>>]
\* A view with a blank first title element, a mailto link and an outside
\* link.
viewMail ==
    [title |-> << <<" ">>, <<" ">> \o sAnNoisy >>, category |-> <<>>,
     address |-> <<>>, phone |-> <<>>, phone_matches |-> <<>>,
     website |-> <<>>, link_href |-> sHttp,
     mailto_href |-> sMailto \o sMail \o <<" ">>, email_matches |-> <<sGmail>>]
\* The view of the Acme scenario with a share link, mailto:?, as its first
\* mailto link.
viewShare ==
    [title |-> <<sAn>>, category |-> <<sCafe>>, address |-> <<>>,
     phone |-> <<>>, phone_matches |-> <<sPhone>>,
     website |-> <<sHttp>>, link_href |-> None,
     mailto_href |-> sMailto \o <<"?">>, email_matches |-> <<>>]
\* A view in which nothing matches.
viewBare ==
    [title |-> <<>>, category |-> <<>>, address |-> <<>>,
     phone |-> <<>>, phone_matches |-> <<>>,
     website |-> <<>>, link_href |-> None,
     mailto_href |-> None, email_matches |-> <<>>]

DetailViews == {viewAcme, viewMail, viewShare, viewBare}

RECURSIVE safe_text(_)
\* safe_text(page, selector): the trimmed text of the first element whose
\* text is not blank, else ''.
safe_text(elements) ==
    IF elements = <<>> THEN <<>>
    ELSE IF Strip(Head(elements)) # <<>> THEN Strip(Head(elements))
         ELSE safe_text(Tail(elements))

\* matches[0] if matches else ''
FirstMatch(matches) == IF matches = <<>> THEN <<>> ELSE matches[1]

\* Lines 225-228.
HeuristicPhone(v) ==
    IF safe_text(v.phone) # <<>> THEN safe_text(v.phone)
    ELSE FirstMatch(v.phone_matches)

\* Lines 229-232.
HeuristicWebsite(v) ==
    IF safe_text(v.website) # <<>> THEN safe_text(v.website)
    ELSE IF v.link_href # None THEN v.link_href ELSE <<>>

\* Lines 233-239.
HeuristicEmail(v) ==
    LET linked == IF v.mailto_href # None
                  THEN Strip(Replace(v.mailto_href, sMailto))
                  ELSE <<>>
    IN  IF linked # <<>> THEN linked ELSE FirstMatch(v.email_matches)

\* Lines 222-239: the six values of the else branch, in the order of
\* FieldKeys.
Heuristic(v) ==
    <<safe_text(v.title), safe_text(v.category), safe_text(v.address),
      HeuristicPhone(v), HeuristicEmail(v), HeuristicWebsite(v)>>

\* Lines 215-220: the six values read from the parsed object.
FromGemini(obj) == [k \in 1..6 |-> DictGet(obj, k)]

\* A wrong cleaning step: the values are used as extracted.
NoCleaning(raw) == raw

\* Lines 240-245: clean_field on each of the six values.
CleanAll(raw) == [k \in 1..6 |-> clean_field(raw[k])]

\* clean_field raises TypeError (re.sub on a value that is not a string).
CleanRaises(raw) == \E k \in 1..6 : raw[k] = NonStr

\* A wrong gate: the resolver is tried when there is an email already.
ContactGateInverted(fields) ==
    /\ fields[5] # <<>>
    /\ fields[6] # <<>>
    /\ StartsWith(fields[6], <<"h", "t", "t", "p">>)

\* Line 247: (not email or not re.search(r'@', email)) and website and
\* website.startswith('http')
ContactGate(fields) ==
    /\ fields[5] = <<>> \/ ~HasAt(fields[5])
    /\ fields[6] # <<>>
    /\ StartsWith(fields[6], <<"h", "t", "t", "p">>)

\* A wrong key: the email is left out of the tuple.
DedupKeyNoEmail(fields) == [k \in 1..6 |-> IF k = 5 THEN <<>> ELSE Lower(fields[k])]

\* Lines 254-261: dedup_key.
DedupKey(fields) == [k \in 1..6 |-> Lower(fields[k])]

\* What find_gmail_on_website can return: an address, or '' when the site
\* shows none or cannot be visited (lines 380-395).
ResolverReturns == {sGmail, <<>>}

\* max_cards and max_no_new_cards_scrolls of scrape_google_maps.
max_cards == 80
max_no_new_cards_scrolls == 6
\* range(8): the PageDown presses of one scroll iteration.
page_down_presses == 8

(***************************************************************************)
(* State.                                                                  *)
(***************************************************************************)
VARIABLES
    \* clean_field, called on its own
    cf_pc,       \* "call", "again", "done", or "off"
    cf_value,    \* the argument of clean_field
    cf_lines,    \* the local `lines` at the return
    cf_cleaned,  \* the local `cleaned` at the return
    cf_ret,      \* what clean_field(value) returned
    cf_ret2,     \* what clean_field applied to that result returned
    \* gemini_generate
    g_pc,          \* "off", "loop" (in the for loop) or "returned"
    attempt,       \* the loop variable: the attempt about to run
    requests,      \* how many client.post calls this call has issued
    last_outcome,  \* how the latest request ended ("none" before the first)
    only_429,      \* every request of this call that failed got HTTP 429
    gemini_data,   \* the value returned: Pending, None or the parsed object
    \* ScraperController
    stop_scrolling_requested,
    stop_all_requested,
    \* the environment of a run
    counts,        \* the numbers of cards the results container can show
    free,          \* the items with index < free behave in every way;
                   \* the others give FillerObject at the first request
    loaded,        \* the number of cards the container shows now
    \* scrape_google_maps
    pc,            \* where the coroutine is
    data,          \* the accumulated records
    unique_keys,   \* the dedup keys of the accumulated records
    last_count,
    no_new_cards_scrolls,
    presses,       \* the PageDown presses done in this scroll iteration
    cards,         \* how many cards line 198 found
    idx,           \* the index of the listing item in the extraction loop
    seen_card_ids,
    raw,           \* the six values before cleaning (lines 215-239)
    fields,        \* name, business_type, address, phone, email, website
    source,        \* which branch of line 214 gave them: "ai", "heuristic"
    resolved,      \* the url find_gmail_on_website was called with, or None
    found_gmail,   \* what it returned
    outcome,       \* how the item ended: "emitted", "duplicate", "seen",
                   \* "error"; "none" while it is handled
    result,        \* the list the run returned
    \* history
    origin,        \* origin[i] is the index of the item data[i] came from
    yielded,       \* the pairs <<idx, fields>> of the items that reached
                   \* line 254
    polled,        \* len(cards) at the latest poll of the scroll loop
    streak,        \* how many polls in a row have shown that number
    stop_at,       \* the first item whose checkpoint was still ahead when
                   \* stop_all_requested was set (-1: not set)
    data_at_stop   \* the records accumulated at that moment

VARIABLES
    \* launch_ui: the window
    ui_pc,               \* where the UI thread is: "idle" (in the main
                         \* loop) or the line of a handler it is about to run
    query_var,           \* the text of the entry
    start_button,        \* "normal" or "disabled"
    stop_scroll_button,
    stop_all_button,
    \* run_scraper_from_ui: the worker threads, one per accepted Start
    w_pc,          \* w_pc[t]: where thread t is in task()
    w_query,       \* w_query[t]: the text query.get() gave thread t at
                   \* line 294, before the coroutine was created (None
                   \* before)
    w_data,        \* w_data[t]: the list `data` of its scrape_google_maps
    output_file,   \* the records OUTPUT_FILE holds
    \* history
    written,       \* written[t]: the contents thread t has given the file,
                   \* one per replacement
    asked_scroll,  \* the thread that was the latest one started when
                   \* request_stop_scrolling() was last called (0: never)
    asked_all,     \* the same for request_stop_all()
    lost           \* the requests <<flag, t>> made after thread t was
                   \* started that thread t itself cleared

\* The three buttons of the window.
buttons == <<start_button, stop_scroll_button, stop_all_button>>
\* The history variables of the window.
ui_hist == <<written, asked_scroll, asked_all, lost>>
ui_vars == <<ui_pc, query_var, buttons, w_pc, w_query, w_data, output_file,
             ui_hist>>
cf_vars == <<cf_pc, cf_value, cf_lines, cf_cleaned, cf_ret, cf_ret2>>
g_vars == <<g_pc, attempt, requests, last_outcome, only_429, gemini_data>>
ctl_vars == <<stop_scrolling_requested, stop_all_requested>>
env_vars == <<counts, free, loaded>>
scroll_vars == <<last_count, no_new_cards_scrolls, presses>>
item_vars == <<raw, fields, source, resolved, found_gmail, outcome>>
loop_vars == <<cards, idx, seen_card_ids>>
acc_vars == <<data, unique_keys, origin, yielded>>
hist_vars == <<polled, streak, stop_at, data_at_stop>>
run_vars == <<ctl_vars, env_vars, pc, scroll_vars, item_vars, loop_vars,
              acc_vars, result, hist_vars>>

vars == <<ui_vars, cf_vars, g_vars, run_vars>>

\* The locals of one loop iteration before the item is handled.
ItemClear ==
    /\ raw' = <<>>
    /\ fields' = <<>>
    /\ source' = "none"
    /\ resolved' = None
    /\ found_gmail' = <<>>
    /\ outcome' = "none"

\* No run of scrape_google_maps is in progress.
RunOff ==
    /\ stop_scrolling_requested = FALSE
    /\ stop_all_requested = FALSE
    /\ counts = {0}
    /\ loaded = 0
    /\ pc = "off"
    /\ data = <<>>
    /\ unique_keys = {}
    /\ last_count = 0
    /\ no_new_cards_scrolls = 0
    /\ presses = 0
    /\ cards = 0
    /\ seen_card_ids = {}
    /\ raw = <<>>
    /\ fields = <<>>
    /\ source = "none"
    /\ resolved = None
    /\ found_gmail = <<>>
    /\ outcome = "none"
    /\ result = <<>>
    /\ origin = <<>>
    /\ yielded = {}
    /\ polled = -1
    /\ streak = 0
    /\ stop_at = -1
    /\ data_at_stop = <<>>

\* The worker threads run_scraper_from_ui can start.
Workers == 1..MaxRuns

\* The window of launch_ui is not open.
UIOff ==
    /\ ui_pc = "idle"
    /\ query_var = <<>>
    /\ start_button = "disabled"
    /\ stop_scroll_button = "disabled"
    /\ stop_all_button = "disabled"
    /\ w_pc = [t \in Workers |-> "unborn"]
    /\ w_query = [t \in Workers |-> None]
    /\ w_data = [t \in Workers |-> <<>>]
    /\ output_file = <<>>
    /\ written = [t \in Workers |-> <<>>]
    /\ asked_scroll = 0
    /\ asked_all = 0
    /\ lost = {}

\* clean_field is not being called on its own.
CleanOff ==
    /\ cf_pc = "off"
    /\ cf_value = None
    /\ cf_lines = <<>>
    /\ cf_cleaned = <<>>
    /\ cf_ret = None
    /\ cf_ret2 = None

\* No call of gemini_generate is in progress.
GeminiOff ==
    /\ g_pc = "off"
    /\ attempt = 0
    /\ requests = 0
    /\ last_outcome = "none"
    /\ only_429 = TRUE
    /\ gemini_data = Pending

(***************************************************************************)
(* gemini_generate(prompt).                                                *)
(***************************************************************************)
\* The entry of gemini_generate: the client is made, the loop starts.
GeminiEnter ==
    /\ g_pc' = "loop"
    /\ attempt' = 0
    /\ requests' = 0
    /\ last_outcome' = "none"
    /\ only_429' = TRUE
    /\ gemini_data' = Pending

\* The endpoint may fail for the current item.
EndpointOpen == idx < free
\* The objects a reply for the current item can parse to.
ReplyObjects == IF EndpointOpen THEN AIObjects ELSE {FillerObject(idx)}

\* The loop body is entered for one more attempt.
InLoop == g_pc = "loop" /\ attempt < max_attempts

\* Lines 39-51: the request succeeds and the reply text holds a JSON object
\* that parses: return obj.
GeminiReplyObject ==
    /\ InLoop
    /\ \E obj \in ReplyObjects :
          gemini_data' = obj
    /\ requests' = requests + 1
    /\ last_outcome' = "object"
    /\ g_pc' = "returned"
    /\ UNCHANGED <<attempt, only_429>>

\* Lines 44-56: the request succeeds and the reply text holds no {...}
\* ("no_json"), or one that raw_decode rejects ("bad_json"): return None.
GeminiReplyUnparsable ==
    /\ InLoop
    /\ EndpointOpen
    /\ \E o \in {"no_json", "bad_json"} : last_outcome' = o
    /\ requests' = requests + 1
    /\ gemini_data' = None
    /\ g_pc' = "returned"
    /\ UNCHANGED <<attempt, only_429>>

\* Lines 57-59: httpx.TimeoutException: continue.
GeminiTimeout ==
    /\ InLoop
    /\ EndpointOpen
    /\ requests' = requests + 1
    /\ last_outcome' = "timeout"
    /\ only_429' = FALSE
    /\ attempt' = attempt + 1
    /\ UNCHANGED <<g_pc, gemini_data>>

\* A wrong handler: a 429 is retried without using up an attempt.
Gemini429Forever ==
    /\ InLoop
    /\ EndpointOpen
    /\ requests' = requests + 1
    /\ last_outcome' = "http_429"
    /\ UNCHANGED <<attempt, g_pc, gemini_data, only_429>>

\* Lines 60-64: httpx.HTTPStatusError with status 429: continue.
Gemini429 ==
    /\ InLoop
    /\ EndpointOpen
    /\ requests' = requests + 1
    /\ last_outcome' = "http_429"
    /\ attempt' = attempt + 1
    /\ UNCHANGED <<g_pc, gemini_data, only_429>>

\* A wrong handler: any HTTP error but 429 returns None at once.
HttpErrorReturnsNone(a) == TRUE

\* Lines 65-67 and 70-71: `if attempt == max_attempts - 1: return None`.
LastAttempt(a) == a = max_attempts - 1

\* Lines 60-67: httpx.HTTPStatusError with another status: return None on
\* the last attempt; otherwise the handler ends and the loop goes on.
GeminiHttpError ==
    /\ InLoop
    /\ EndpointOpen
    /\ requests' = requests + 1
    /\ last_outcome' = "http_error"
    /\ only_429' = FALSE
    /\ IF LastAttempt(attempt)
       THEN /\ gemini_data' = None
            /\ g_pc' = "returned"
            /\ UNCHANGED attempt
       ELSE /\ attempt' = attempt + 1
            /\ UNCHANGED <<g_pc, gemini_data>>

\* Lines 68-72: any other exception (a connection error, a body that is not
\* JSON, a reply without candidates): return None on the last attempt,
\* otherwise continue.
GeminiException ==
    /\ InLoop
    /\ EndpointOpen
    /\ requests' = requests + 1
    /\ last_outcome' = "exception"
    /\ only_429' = FALSE
    /\ IF LastAttempt(attempt)
       THEN /\ gemini_data' = None
            /\ g_pc' = "returned"
            /\ UNCHANGED attempt
       ELSE /\ attempt' = attempt + 1
            /\ UNCHANGED <<g_pc, gemini_data>>

\* Line 34: range(max_attempts) is used up: the function ends and returns
\* None.
GeminiExhausted ==
    /\ g_pc = "loop"
    /\ attempt >= max_attempts
    /\ gemini_data' = None
    /\ g_pc' = "returned"
    /\ UNCHANGED <<attempt, requests, last_outcome, only_429>>

\* One step of gemini_generate.
GeminiStep ==
    \/ GeminiReplyObject
    \/ GeminiReplyUnparsable
    \/ GeminiTimeout
    \/ Gemini429
    \/ GeminiHttpError
    \/ GeminiException
    \/ GeminiExhausted

(***************************************************************************)
(* SpecGemini: one call of gemini_generate against every endpoint.         *)
(***************************************************************************)
InitGemini ==
    /\ UIOff
    /\ CleanOff
    /\ g_pc = "loop"
    /\ attempt = 0
    /\ requests = 0
    /\ last_outcome = "none"
    /\ only_429 = TRUE
    /\ gemini_data = Pending
    /\ RunOff
    /\ free = 1
    /\ idx = 0

NextGemini ==
    \/ GeminiReplyObject /\ UNCHANGED <<ui_vars, cf_vars, run_vars>>
    \/ GeminiReplyUnparsable /\ UNCHANGED <<ui_vars, cf_vars, run_vars>>
    \/ GeminiTimeout /\ UNCHANGED <<ui_vars, cf_vars, run_vars>>
    \/ Gemini429 /\ UNCHANGED <<ui_vars, cf_vars, run_vars>>
    \/ GeminiHttpError /\ UNCHANGED <<ui_vars, cf_vars, run_vars>>
    \/ GeminiException /\ UNCHANGED <<ui_vars, cf_vars, run_vars>>
    \/ GeminiExhausted /\ UNCHANGED <<ui_vars, cf_vars, run_vars>>

SpecGemini == InitGemini /\ [][NextGemini]_vars

(***************************************************************************)
(* ScraperController: the two requests of the UI thread.                   *)
(***************************************************************************)
\* The places of scrape_google_maps in its scroll loop (lines 150-195):
\* "scroll" is line 151, "scroll_154" line 154, "poll" the await of line
\* 157, "scroll_down" line 171, "page_down" line 185, "page_down_188" line
\* 188, "press" the await of line 191 and "settle" line 195.
ScrollPcs == {"scroll", "scroll_154", "poll", "scroll_down", "page_down",
              "page_down_188", "press", "settle"}
\* The places inside the handling of one item (lines 208-275).
ItemPcs == {"activate", "gemini", "contact", "dedup", "next"}
\* The run is in progress: in the scroll loop, at line 198 ("snapshot"), at
\* the head of the extraction loop ("item" is line 199, "item_202" line 202
\* and "card_id" the await of line 204) or inside the handling of an item.
Running ==
    pc \in ScrollPcs \cup {"snapshot", "item", "item_202", "card_id"}
             \cup ItemPcs

\* The first item whose checkpoint (the read of line 199) is still ahead.
NextCheckpoint ==
    IF pc \in ScrollPcs \cup {"snapshot"} THEN 0
    ELSE IF pc = "item" THEN idx
    ELSE idx + 1

\* request_stop_all(), called by the UI thread at any moment of a run: between
\* any two lines of the coroutine and while it awaits.
RequestStopAll ==
    /\ Running
    /\ ~stop_all_requested
    /\ stop_all_requested' = TRUE
    /\ stop_at' = NextCheckpoint
    /\ data_at_stop' = data
    /\ UNCHANGED <<ui_vars, cf_vars, g_vars, stop_scrolling_requested, env_vars, pc,
                   scroll_vars, item_vars, loop_vars, acc_vars, result,
                   polled, streak>>

\* request_stop_scrolling(), at any moment of a run.  The two flags are
\* written without a lock, and each read of one by the coroutine is a step
\* of its own.
RequestStopScrolling ==
    /\ Running
    /\ ~stop_scrolling_requested
    /\ stop_scrolling_requested' = TRUE
    /\ UNCHANGED <<ui_vars, cf_vars, g_vars, stop_all_requested, env_vars, pc,
                   scroll_vars, item_vars, loop_vars, acc_vars, result,
                   hist_vars>>

(***************************************************************************)
(* scrape_google_maps: the scroll loop (lines 145-195).                    *)
(***************************************************************************)
\* `return data`
Return ==
    /\ pc' = "done"
    /\ result' = data

\* What a step that only moves the coroutine leaves alone.
OnlyPc ==
    UNCHANGED <<ui_vars, cf_vars, g_vars, ctl_vars, env_vars, scroll_vars,
                item_vars, loop_vars, acc_vars, result, hist_vars>>

\* Lines 151-153: stop_all_requested is read as set.
ScrollStopAll ==
    /\ pc = "scroll"
    /\ stop_all_requested
    /\ Return
    /\ UNCHANGED <<ui_vars, cf_vars, g_vars, ctl_vars, env_vars, scroll_vars,
                   item_vars, loop_vars, acc_vars, hist_vars>>

\* Line 151: stop_all_requested is read as not set.
ScrollNotStopped ==
    /\ pc = "scroll"
    /\ ~stop_all_requested
    /\ pc' = "scroll_154"
    /\ OnlyPc

\* Lines 154-156: stop_scrolling_requested is read as set.
ScrollStopScrolling ==
    /\ pc = "scroll_154"
    /\ stop_scrolling_requested
    /\ pc' = "snapshot"
    /\ OnlyPc

\* Line 154: stop_scrolling_requested is read as not set; line 157 is
\* awaited.
ScrollNotBroken ==
    /\ pc = "scroll_154"
    /\ ~stop_scrolling_requested
    /\ pc' = "poll"
    /\ OnlyPc

\* A wrong counter: a poll without growth is not counted.
NoGrowthNeverCounted(n, last, scrolls) == 0

\* A wrong counter: every poll is counted, growth or not.
NoGrowthAlwaysCounted(n, last, scrolls) == scrolls + 1

\* Lines 162-165: no_new_cards_scrolls after a poll that found n cards.
NoGrowthCount(n, last, scrolls) == IF n = last THEN scrolls + 1 ELSE 0

\* Line 167: no_new_cards_scrolls >= max_no_new_cards_scrolls.
ScrollLimit(scrolls) == scrolls >= max_no_new_cards_scrolls

\* Lines 157-169: the query of line 157 returns, whatever the flags have
\* become while it was awaited: one poll of the results container.
Poll ==
    /\ pc = "poll"
    /\ polled' = loaded
    /\ streak' = IF loaded = polled THEN streak + 1 ELSE 1
    /\ IF loaded >= max_cards
       THEN /\ pc' = "snapshot"
            /\ UNCHANGED <<last_count, no_new_cards_scrolls>>
       ELSE /\ no_new_cards_scrolls' =
                  NoGrowthCount(loaded, last_count, no_new_cards_scrolls)
            /\ last_count' = loaded
            /\ pc' = IF ScrollLimit(no_new_cards_scrolls')
                     THEN "snapshot" ELSE "scroll_down"
    /\ UNCHANGED <<ui_vars, cf_vars, g_vars, ctl_vars, env_vars, presses, item_vars,
                   loop_vars, acc_vars, result, stop_at, data_at_stop>>

\* Line 157: the query of the results container raises (the page is gone).
\* The line is outside every try, so the exception leaves
\* scrape_google_maps.
PollRaises ==
    /\ pc = "poll"
    /\ pc' = "raised"
    /\ OnlyPc

\* Lines 171-182: focus, scrollTo and mouse wheel (their exceptions are
\* passed over), then the PageDown loop starts.
ScrollDown ==
    /\ pc = "scroll_down"
    /\ presses' = 0
    /\ pc' = "page_down"
    /\ UNCHANGED <<ui_vars, cf_vars, g_vars, ctl_vars, env_vars, last_count,
                   no_new_cards_scrolls, item_vars, loop_vars, acc_vars,
                   result, hist_vars>>

\* A wrong checkpoint: the flag is not looked at between the key presses.
PageDownStopMissed == FALSE

\* Line 185: the read of controller.stop_all_requested.
PageDownStopSeen == stop_all_requested

\* Lines 185-187: stop_all_requested is read as set.
PageDownStopAll ==
    /\ pc = "page_down"
    /\ PageDownStopSeen
    /\ Return
    /\ UNCHANGED <<ui_vars, cf_vars, g_vars, ctl_vars, env_vars, scroll_vars,
                   item_vars, loop_vars, acc_vars, hist_vars>>

\* Line 185: stop_all_requested is read as not set.
PageDownNotStopped ==
    /\ pc = "page_down"
    /\ ~PageDownStopSeen
    /\ pc' = "page_down_188"
    /\ OnlyPc

\* Lines 188-190: stop_scrolling_requested is read as set.
PageDownStopScrolling ==
    /\ pc = "page_down_188"
    /\ stop_scrolling_requested
    /\ pc' = "settle"
    /\ OnlyPc

\* Line 188: stop_scrolling_requested is read as not set; line 191 is
\* awaited.
PageDownNotBroken ==
    /\ pc = "page_down_188"
    /\ ~stop_scrolling_requested
    /\ pc' = "press"
    /\ OnlyPc

\* Lines 191-192: the key press returns, whatever the flags have become
\* while it was awaited: one PageDown; after the last of them line 195
\* follows.
PageDownPress ==
    /\ pc = "press"
    /\ presses' = presses + 1
    /\ pc' = IF presses + 1 >= page_down_presses THEN "settle" ELSE "page_down"
    /\ UNCHANGED <<ui_vars, cf_vars, g_vars, ctl_vars, env_vars, last_count,
                   no_new_cards_scrolls, item_vars, loop_vars, acc_vars,
                   result, hist_vars>>

\* Lines 191-194: the key press raises; the loop is left.
PageDownRaises ==
    /\ pc = "press"
    /\ pc' = "settle"
    /\ OnlyPc

\* Line 195: the settle interval, in which the container renders: it may
\* show any number of cards afterwards.
Settle ==
    /\ pc = "settle"
    /\ \E n \in counts : loaded' = n
    /\ pc' = "scroll"
    /\ UNCHANGED <<ui_vars, cf_vars, g_vars, ctl_vars, counts, free, scroll_vars,
                   item_vars, loop_vars, acc_vars, result, hist_vars>>

(***************************************************************************)
(* scrape_google_maps: the extraction loop (lines 197-277).                *)
(***************************************************************************)
\* Lines 197-198: the cards are queried again; the container may have
\* rendered since the last poll.  The locals of the scroll loop are not read
\* after it, and the model forgets them here.
Snapshot ==
    /\ pc = "snapshot"
    /\ \E n \in counts : loaded' = n /\ cards' = n
    /\ idx' = 0
    /\ seen_card_ids' = {}
    /\ last_count' = 0
    /\ no_new_cards_scrolls' = 0
    /\ presses' = 0
    /\ polled' = -1
    /\ streak' = 0
    /\ pc' = "item"
    /\ UNCHANGED <<ui_vars, cf_vars, g_vars, ctl_vars, counts, free, item_vars,
                   acc_vars, result, stop_at, data_at_stop>>

\* Line 198: the query of the cards raises; the exception leaves
\* scrape_google_maps.
SnapshotRaises ==
    /\ pc = "snapshot"
    /\ pc' = "raised"
    /\ OnlyPc

\* The for loop has no card left: lines 276-277.
LoopEnd ==
    /\ pc = "item"
    /\ idx >= cards
    /\ Return
    /\ UNCHANGED <<ui_vars, cf_vars, g_vars, ctl_vars, env_vars, scroll_vars,
                   item_vars, loop_vars, acc_vars, hist_vars>>

\* A wrong checkpoint: the flag is not looked at.
StopNeverSeen == FALSE

\* Line 199: the read of controller.stop_all_requested.
ExtractionStopSeen == stop_all_requested

\* Lines 199-201, then 276-277: stop_all_requested is read as set.
ItemStopAll ==
    /\ pc = "item"
    /\ idx < cards
    /\ ExtractionStopSeen
    /\ Return
    /\ UNCHANGED <<ui_vars, cf_vars, g_vars, ctl_vars, env_vars, scroll_vars,
                   item_vars, loop_vars, acc_vars, hist_vars>>

\* Line 199: stop_all_requested is read as not set.
ItemNotStopped ==
    /\ pc = "item"
    /\ idx < cards
    /\ ~ExtractionStopSeen
    /\ pc' = "item_202"
    /\ OnlyPc

\* A wrong cap: the list is never taken to be full.
NeverFull(records) == FALSE

\* Line 202: len(data) >= max_cards.
Full(records) == Len(records) >= max_cards

\* Lines 202-203, then 276-277.
ItemCap ==
    /\ pc = "item_202"
    /\ Full(data)
    /\ Return
    /\ UNCHANGED <<ui_vars, cf_vars, g_vars, ctl_vars, env_vars, scroll_vars,
                   item_vars, loop_vars, acc_vars, hist_vars>>

\* Line 202: the list is not full; line 204 is awaited.
ItemNotFull ==
    /\ pc = "item_202"
    /\ ~Full(data)
    /\ pc' = "card_id"
    /\ OnlyPc

\* The extraction loop is left: no card is left (line 198) or one of the
\* breaks of lines 201 and 203 is taken.
LoopLeft ==
    \/ pc = "item" /\ (idx >= cards \/ ExtractionStopSeen)
    \/ pc = "item_202" /\ Full(data)

\* Line 276: browser.close() raises after the loop.  The line is outside
\* every try, so the exception leaves scrape_google_maps and the list is
\* not returned.
CloseRaises ==
    /\ LoopLeft
    /\ pc' = "raised"
    /\ OnlyPc

\* Both checks of the loop head have let the item through: line 204 is
\* awaited.
ItemPasses == pc = "card_id"

\* The step is one of an item whose behaviour is left open.
ItemOpen == idx < free

\* The values data-result-index can have on a card: absent, empty, or the
\* index the listing gives the card.
CardAttributes == IF ItemOpen THEN {None, <<>>, <<"1">>} ELSE {None}

\* Line 204: get_attribute('data-result-index') or str(idx).
CardIdOf(attribute, i) ==
    IF attribute = None \/ attribute = <<>> THEN Digits(i) ELSE attribute

\* Lines 204-207: get_attribute returns, whatever the flags have become
\* while it was awaited; the CardId is derived and looked up in
\* seen_card_ids.
CardId ==
    /\ ItemPasses
    /\ \E attribute \in CardAttributes :
          LET card_id == CardIdOf(attribute, idx)
          IN  IF card_id \in seen_card_ids
              THEN /\ outcome' = "seen"
                   /\ pc' = "next"
                   /\ UNCHANGED seen_card_ids
              ELSE /\ seen_card_ids' = seen_card_ids \cup {card_id}
                   /\ pc' = "activate"
                   /\ UNCHANGED outcome
    /\ UNCHANGED <<ui_vars, cf_vars, g_vars, ctl_vars, env_vars, scroll_vars, raw,
                   fields, source, resolved, found_gmail, cards, idx,
                   acc_vars, result, hist_vars>>

\* Line 204: get_attribute raises.  The line is outside the try of lines
\* 208-275, so the exception leaves scrape_google_maps.
CardIdRaises ==
    /\ ItemPasses
    /\ ItemOpen
    /\ pc' = "raised"
    /\ OnlyPc

\* Lines 273-275: the except branch of the item.
ItemFails ==
    /\ outcome' = "error"
    /\ pc' = "next"

\* Lines 209-213: the card is clicked, the detail view appears, its text is
\* captured and extract_with_gemini is called.
Activate ==
    /\ pc = "activate"
    /\ GeminiEnter
    /\ pc' = "gemini"
    /\ UNCHANGED <<ui_vars, cf_vars, ctl_vars, env_vars, scroll_vars, item_vars,
                   loop_vars, acc_vars, result, hist_vars>>

\* Lines 209-212 raise (the click, the wait for the detail view or the text
\* capture).
ActivateRaises ==
    /\ pc = "activate"
    /\ ItemOpen
    /\ ItemFails
    /\ UNCHANGED <<ui_vars, cf_vars, g_vars, ctl_vars, env_vars, scroll_vars, raw,
                   fields, source, resolved, found_gmail, loop_vars,
                   acc_vars, result, hist_vars>>

\* gemini_generate runs one step while the coroutine awaits it.
AwaitGemini ==
    /\ pc = "gemini"
    /\ GeminiStep
    /\ UNCHANGED <<ui_vars, cf_vars, run_vars>>

\* Lines 214-220 and 240-245: the object is used and its values cleaned.
UseGemini ==
    /\ pc = "gemini"
    /\ g_pc = "returned"
    /\ Truthy(gemini_data)
    /\ LET values == FromGemini(gemini_data)
       IN  /\ raw' = values
           /\ IF CleanRaises(values)
              THEN /\ ItemFails
                   /\ UNCHANGED <<fields, source>>
              ELSE /\ fields' = CleanAll(values)
                   /\ source' = "ai"
                   /\ pc' = "contact"
                   /\ UNCHANGED outcome
    /\ UNCHANGED <<ui_vars, cf_vars, g_vars, ctl_vars, env_vars, scroll_vars,
                   resolved, found_gmail, loop_vars, acc_vars, result,
                   hist_vars>>

\* Lines 221-245: the heuristic extractor reads the detail view and its
\* values are cleaned.
UseHeuristic ==
    /\ pc = "gemini"
    /\ g_pc = "returned"
    /\ ~Truthy(gemini_data)
    /\ \E v \in DetailViews : raw' = Heuristic(v)
    /\ fields' = CleanAll(raw')
    /\ source' = "heuristic"
    /\ pc' = "contact"
    /\ UNCHANGED <<ui_vars, cf_vars, g_vars, ctl_vars, env_vars, scroll_vars,
                   resolved, found_gmail, outcome, loop_vars, acc_vars,
                   result, hist_vars>>

\* Lines 231-236: a query of the heuristic extractor raises.
HeuristicRaises ==
    /\ pc = "gemini"
    /\ g_pc = "returned"
    /\ ~Truthy(gemini_data)
    /\ ItemFails
    /\ UNCHANGED <<ui_vars, cf_vars, g_vars, ctl_vars, env_vars, scroll_vars, raw,
                   fields, source, resolved, found_gmail, loop_vars,
                   acc_vars, result, hist_vars>>

\* A wrong replacement: the email becomes whatever the resolver returned.
ResolverAlwaysReplaces(email, found) == found

\* Lines 249-250: `if found_gmail: email = found_gmail`.
ResolvedEmail(email, found) == IF found # <<>> THEN found ELSE email

\* Lines 247-251: find_gmail_on_website(website) returns.
ResolveContact ==
    /\ pc = "contact"
    /\ ContactGate(fields)
    /\ resolved' = fields[6]
    /\ \E found \in ResolverReturns :
          /\ found_gmail' = found
          /\ fields' = [fields EXCEPT ![5] = ResolvedEmail(@, found)]
    /\ pc' = "dedup"
    /\ UNCHANGED <<ui_vars, cf_vars, g_vars, ctl_vars, env_vars, scroll_vars, raw,
                   source, outcome, loop_vars, acc_vars, result, hist_vars>>

\* Lines 248-253: find_gmail_on_website raises (the browser of the resolver
\* cannot be launched); the exception is logged.
ResolveRaises ==
    /\ pc = "contact"
    /\ ContactGate(fields)
    /\ resolved' = fields[6]
    /\ pc' = "dedup"
    /\ UNCHANGED <<ui_vars, cf_vars, g_vars, ctl_vars, env_vars, scroll_vars, raw,
                   fields, source, found_gmail, outcome, loop_vars, acc_vars,
                   result, hist_vars>>

\* Line 247 is false: no resolution.
SkipContact ==
    /\ pc = "contact"
    /\ ~ContactGate(fields)
    /\ pc' = "dedup"
    /\ OnlyPc

\* Lines 254-272: the dedup key is looked up; a new one is added and the
\* record appended.
Dedup ==
    /\ pc = "dedup"
    /\ LET dedup_key == DedupKey(fields)
       IN  /\ yielded' = yielded \cup {<<idx, fields>>}
           /\ IF dedup_key \in unique_keys
              THEN /\ outcome' = "duplicate"
                   /\ UNCHANGED <<data, unique_keys, origin>>
              ELSE /\ unique_keys' = unique_keys \cup {dedup_key}
                   /\ data' = Append(data, fields)
                   /\ origin' = Append(origin, idx)
                   /\ outcome' = "emitted"
    /\ pc' = "next"
    /\ UNCHANGED <<ui_vars, cf_vars, g_vars, ctl_vars, env_vars, scroll_vars, raw,
                   fields, source, resolved, found_gmail, loop_vars, result,
                   hist_vars>>

\* The loop goes to the next card.  The locals of the iteration are not
\* read again before they are assigned, and the model clears them.
NextItem ==
    /\ pc = "next"
    /\ idx' = idx + 1
    /\ ItemClear
    /\ g_pc' = "off"
    /\ attempt' = 0
    /\ requests' = 0
    /\ last_outcome' = "none"
    /\ only_429' = TRUE
    /\ gemini_data' = Pending
    /\ pc' = "item"
    /\ UNCHANGED <<ui_vars, cf_vars, ctl_vars, env_vars, scroll_vars, cards,
                   seen_card_ids, acc_vars, result, hist_vars>>

(***************************************************************************)
(* Spec: a run of scrape_google_maps, on a short listing (the container    *)
(* shows 0..MaxSmall cards, each behaving in every way) or on a long one   *)
(* (it shows max_cards - 1 or max_cards + CapExtra cards; the first        *)
(* CapFree cards behave in every way, the others are handled without a     *)
(* fault and give one business each).                                      *)
(***************************************************************************)
\* The state after lines 120-148, the controller's flags cleared.
RunStart ==
    /\ CleanOff
    /\ GeminiOff
    /\ stop_scrolling_requested = FALSE
    /\ stop_all_requested = FALSE
    /\ loaded \in counts
    /\ pc = "scroll"
    /\ data = <<>>
    /\ unique_keys = {}
    /\ last_count = 0
    /\ no_new_cards_scrolls = 0
    /\ presses = 0
    /\ cards = 0
    /\ idx = 0
    /\ seen_card_ids = {}
    /\ raw = <<>>
    /\ fields = <<>>
    /\ source = "none"
    /\ resolved = None
    /\ found_gmail = <<>>
    /\ outcome = "none"
    /\ result = <<>>
    /\ origin = <<>>
    /\ yielded = {}
    /\ polled = -1
    /\ streak = 0
    /\ stop_at = -1
    /\ data_at_stop = <<>>

\* A short listing, every card of which behaves in every way.
ShortListing ==
    /\ counts = 0..MaxSmall
    /\ free = MaxSmall

\* A long listing: one card short of max_cards, or more than max_cards.
LongListing ==
    /\ counts = {max_cards - 1, max_cards + CapExtra}
    /\ free = CapFree

Init ==
    /\ ShortListing \/ LongListing
    /\ RunStart
    /\ UIOff

Next ==
    \/ RequestStopAll
    \/ RequestStopScrolling
    \/ ScrollStopAll
    \/ ScrollNotStopped
    \/ ScrollStopScrolling
    \/ ScrollNotBroken
    \/ Poll
    \/ PollRaises
    \/ ScrollDown
    \/ PageDownStopAll
    \/ PageDownNotStopped
    \/ PageDownStopScrolling
    \/ PageDownNotBroken
    \/ PageDownPress
    \/ PageDownRaises
    \/ Settle
    \/ Snapshot
    \/ SnapshotRaises
    \/ LoopEnd
    \/ ItemStopAll
    \/ ItemNotStopped
    \/ ItemCap
    \/ ItemNotFull
    \/ CloseRaises
    \/ CardId
    \/ CardIdRaises
    \/ Activate
    \/ ActivateRaises
    \/ AwaitGemini
    \/ UseGemini
    \/ UseHeuristic
    \/ HeuristicRaises
    \/ ResolveContact
    \/ ResolveRaises
    \/ SkipContact
    \/ Dedup
    \/ NextItem

Spec == Init /\ [][Next]_vars

\* One step of the coroutine scrape_google_maps (every disjunct of Next but
\* the two requests of the UI thread).
RunStep ==
    \/ ScrollStopAll
    \/ ScrollNotStopped
    \/ ScrollStopScrolling
    \/ ScrollNotBroken
    \/ Poll
    \/ PollRaises
    \/ ScrollDown
    \/ PageDownStopAll
    \/ PageDownNotStopped
    \/ PageDownStopScrolling
    \/ PageDownNotBroken
    \/ PageDownPress
    \/ PageDownRaises
    \/ Settle
    \/ Snapshot
    \/ SnapshotRaises
    \/ LoopEnd
    \/ ItemStopAll
    \/ ItemNotStopped
    \/ ItemCap
    \/ ItemNotFull
    \/ CloseRaises
    \/ CardId
    \/ CardIdRaises
    \/ Activate
    \/ ActivateRaises
    \/ AwaitGemini
    \/ UseGemini
    \/ UseHeuristic
    \/ HeuristicRaises
    \/ ResolveContact
    \/ ResolveRaises
    \/ SkipContact
    \/ Dedup
    \/ NextItem

\* A long listing no card of which fails while it is handled.
PlainLongListing ==
    /\ counts = {max_cards - 1, max_cards + CapExtra}
    /\ free = 0

InitLive ==
    /\ ShortListing \/ PlainLongListing
    /\ RunStart
    /\ UIOff

\* SpecLive: a run, on a short listing or on a long one whose cards do not
\* fail, when every await of the coroutine returns (a page or network wait
\* ends, by its result, its timeout or its exception), so that the coroutine
\* goes on as long as it has a step to take.
SpecLive == InitLive /\ [][Next]_vars /\ WF_vars(RunStep)

(***************************************************************************)
(* SpecClean: clean_field applied to every bounded input, then to its own  *)
(* result.                                                                 *)
(***************************************************************************)
CleanInputs == StringsUpTo(CleanAlphabet, MaxLen) \cup {None}

InitClean ==
    /\ UIOff
    /\ cf_pc = "call"
    /\ cf_value \in CleanInputs
    /\ cf_lines = <<>>
    /\ cf_cleaned = <<>>
    /\ cf_ret = None
    /\ cf_ret2 = None
    /\ GeminiOff
    /\ RunOff
    /\ free = 0
    /\ idx = 0

\* clean_field(value)
CleanCall ==
    /\ cf_pc = "call"
    /\ cf_lines' = clean_lines(cf_value)
    /\ cf_cleaned' = clean_cleaned(cf_value)
    /\ cf_ret' = clean_field(cf_value)
    /\ cf_pc' = "again"
    /\ UNCHANGED <<ui_vars, cf_value, cf_ret2, g_vars, run_vars>>

\* clean_field(clean_field(value))
CleanAgain ==
    /\ cf_pc = "again"
    /\ cf_ret2' = clean_field(cf_ret)
    /\ cf_pc' = "done"
    /\ UNCHANGED <<ui_vars, cf_value, cf_lines, cf_cleaned, cf_ret, g_vars,
                   run_vars>>

NextClean == CleanCall \/ CleanAgain

SpecClean == InitClean /\ [][NextClean]_vars

(***************************************************************************)
(* SpecUI: the window of launch_ui and the worker threads of               *)
(* run_scraper_from_ui.  The UI thread runs one handler at a time, line by *)
(* line, and the worker threads run task() one step at a time between      *)
(* those lines; of scrape_google_maps the model keeps the reads of the     *)
(* controller's flags, the awaits that follow them, the exits and the list *)
(* of records.                                                             *)
(***************************************************************************)
\* The locals of the run that Spec follows; SpecUI leaves them alone.
run_locals == <<env_vars, pc, scroll_vars, item_vars, loop_vars, acc_vars,
                result, hist_vars>>
\* What no handler of the window and no step of task() changes.
ui_rest == <<cf_vars, g_vars, run_locals>>

\* The texts the user gives the entry, which is empty at first: a blank one
\* and a query.
Queries == {<<" ">>, sCafe}

\* The worker threads started so far; they are started in the order 1, 2...
LatestThread == Cardinality({t \in Workers : w_pc[t] # "unborn"})

\* The places of task() inside scrape_google_maps: "launch" is lines
\* 120-148, "scroll" a read of stop_all_requested in the scroll loop (line
\* 151 or 185), "scroll_154" the read of stop_scrolling_requested that
\* follows it (line 154 or 188), "poll" the await that follows that (line
\* 157 or 191), "item" lines 198-199 and "card" lines 202-275.
ScrapePcs == {"launch", "scroll", "scroll_154", "poll", "item", "card"}

\* Lines 307-355: the window is built; Start is enabled, the two stop
\* buttons are disabled, and the controller of line 117 has both flags
\* cleared.
InitUI ==
    /\ CleanOff
    /\ GeminiOff
    /\ RunOff
    /\ free = 0
    /\ idx = 0
    /\ ui_pc = "idle"
    /\ query_var = <<>>
    /\ start_button = "normal"
    /\ stop_scroll_button = "disabled"
    /\ stop_all_button = "disabled"
    /\ w_pc = [t \in Workers |-> "unborn"]
    /\ w_query = [t \in Workers |-> None]
    /\ w_data = [t \in Workers |-> <<>>]
    /\ output_file = <<>>
    /\ written = [t \in Workers |-> <<>>]
    /\ asked_scroll = 0
    /\ asked_all = 0
    /\ lost = {}

\* The user edits the entry, at any moment the UI thread is in its main
\* loop.
TypeQuery ==
    /\ ui_pc = "idle"
    /\ \E q \in Queries \ {query_var} : query_var' = q
    /\ UNCHANGED <<ui_pc, buttons, w_pc, w_query, w_data, output_file,
                   ui_hist, ctl_vars, ui_rest>>

\* Lines 327-329: Start is pressed with a blank query; a warning is shown.
on_start_blank ==
    /\ ui_pc = "idle"
    /\ start_button = "normal"
    /\ Strip(query_var) = <<>>
    /\ UNCHANGED <<ui_vars, ctl_vars, ui_rest>>

\* The UI thread goes from one line of a handler to another.
UIGoto(from, to) ==
    /\ ui_pc = from
    /\ ui_pc' = to

\* Lines 327 and 330: Start is pressed with a query; Start is disabled.
on_start ==
    /\ UIGoto("idle", "start_331")
    /\ start_button = "normal"
    /\ Strip(query_var) # <<>>
    /\ LatestThread < MaxRuns
    /\ start_button' = "disabled"
    /\ UNCHANGED <<query_var, stop_scroll_button, stop_all_button, w_pc,
                   w_query, w_data, output_file, ui_hist, ctl_vars, ui_rest>>

\* Line 331: stop_scroll_button.config(state=tk.NORMAL).
on_start_331 ==
    /\ UIGoto("start_331", "start_332")
    /\ stop_scroll_button' = "normal"
    /\ UNCHANGED <<query_var, start_button, stop_all_button, w_pc, w_query,
                   w_data, output_file, ui_hist, ctl_vars, ui_rest>>

\* Line 332: stop_all_button.config(state=tk.NORMAL).
on_start_332 ==
    /\ UIGoto("start_332", "start_333")
    /\ stop_all_button' = "normal"
    /\ UNCHANGED <<query_var, start_button, stop_scroll_button, w_pc, w_query,
                   w_data, output_file, ui_hist, ctl_vars, ui_rest>>

\* Lines 333 and 305: run_scraper_from_ui starts a thread on task().
on_start_333 ==
    /\ UIGoto("start_333", "idle")
    /\ w_pc' = [w_pc EXCEPT ![LatestThread + 1] = "clear_scrolling"]
    /\ UNCHANGED <<query_var, buttons, w_query, w_data, output_file, ui_hist,
                   ctl_vars, ui_rest>>

\* Lines 336 and 111-112: Stop Scrolling is pressed; the flag is set.
on_stop_scroll ==
    /\ UIGoto("idle", "stop_scroll_338")
    /\ stop_scroll_button = "normal"
    /\ stop_scrolling_requested' = TRUE
    /\ asked_scroll' = LatestThread
    /\ UNCHANGED <<query_var, buttons, w_pc, w_query, w_data, output_file,
                   written, asked_all, lost, stop_all_requested, ui_rest>>

\* Line 338: stop_scroll_button.config(state=tk.DISABLED).
on_stop_scroll_338 ==
    /\ UIGoto("stop_scroll_338", "idle")
    /\ stop_scroll_button' = "disabled"
    /\ UNCHANGED <<query_var, start_button, stop_all_button, w_pc, w_query,
                   w_data, output_file, ui_hist, ctl_vars, ui_rest>>

\* Lines 341 and 114-115: Stop All is pressed; the flag is set.
on_stop_all ==
    /\ UIGoto("idle", "stop_all_343")
    /\ stop_all_button = "normal"
    /\ stop_all_requested' = TRUE
    /\ asked_all' = LatestThread
    /\ UNCHANGED <<query_var, buttons, w_pc, w_query, w_data, output_file,
                   written, asked_scroll, lost, stop_scrolling_requested,
                   ui_rest>>

\* Line 343: stop_all_button.config(state=tk.DISABLED).
on_stop_all_343 ==
    /\ UIGoto("stop_all_343", "stop_all_344")
    /\ stop_all_button' = "disabled"
    /\ UNCHANGED <<query_var, start_button, stop_scroll_button, w_pc, w_query,
                   w_data, output_file, ui_hist, ctl_vars, ui_rest>>

\* Line 344: stop_scroll_button.config(state=tk.DISABLED).
on_stop_all_344 ==
    /\ UIGoto("stop_all_344", "idle")
    /\ stop_scroll_button' = "disabled"
    /\ UNCHANGED <<query_var, start_button, stop_all_button, w_pc, w_query,
                   w_data, output_file, ui_hist, ctl_vars, ui_rest>>

\* Thread t goes from one place of task() to another.
Goto(t, from, to) ==
    /\ w_pc[t] = from
    /\ w_pc' = [w_pc EXCEPT ![t] = to]

\* Line 290: controller.stop_scrolling_requested = False.
task_clear_scrolling(t) ==
    /\ Goto(t, "clear_scrolling", "clear_all")
    /\ stop_scrolling_requested' = FALSE
    /\ lost' = IF stop_scrolling_requested /\ asked_scroll = t
               THEN lost \cup {<<"scrolling", t>>} ELSE lost
    /\ UNCHANGED <<ui_pc, query_var, buttons, w_query, w_data, output_file,
                   written, asked_scroll, asked_all, stop_all_requested,
                   ui_rest>>

\* Line 291: controller.stop_all_requested = False.
task_clear_all(t) ==
    /\ Goto(t, "clear_all", "read_query")
    /\ stop_all_requested' = FALSE
    /\ lost' = IF stop_all_requested /\ asked_all = t
               THEN lost \cup {<<"all", t>>} ELSE lost
    /\ UNCHANGED <<ui_pc, query_var, buttons, w_query, w_data, output_file,
                   written, asked_scroll, asked_all,
                   stop_scrolling_requested, ui_rest>>

\* What a step of task() inside scrape_google_maps leaves alone, but for
\* w_pc, w_query and w_data.
ScrapeFrame ==
    UNCHANGED <<ui_pc, query_var, buttons, output_file, ui_hist, ctl_vars,
                ui_rest>>

\* Lines 293-294: query.get() is evaluated, whatever the entry holds by
\* now, as the argument of scrape_google_maps; the coroutine is created
\* with that text and asyncio.run starts it.
task_read_query(t) ==
    /\ Goto(t, "read_query", "launch")
    /\ w_query' = [w_query EXCEPT ![t] = query_var]
    /\ UNCHANGED w_data
    /\ ScrapeFrame

\* Lines 120-148: scrape_google_maps opens the browser, runs the search for
\* the text it was given, whatever the entry has become during the awaits,
\* and reaches its scroll loop with data = [].
scrape_launch(t) ==
    /\ Goto(t, "launch", "scroll")
    /\ w_data' = [w_data EXCEPT ![t] = <<>>]
    /\ UNCHANGED w_query
    /\ ScrapeFrame

\* Lines 124-132: the launch raises (the browser does not start, the search
\* box does not appear): the exception reaches line 298.
scrape_launch_raises(t) ==
    /\ Goto(t, "launch", "finally")
    /\ UNCHANGED <<w_query, w_data>>
    /\ ScrapeFrame

\* A step of task() inside scrape_google_maps that leaves the locals of
\* the thread alone.
Scrape(t, from, to) ==
    /\ Goto(t, from, to)
    /\ UNCHANGED <<w_query, w_data>>
    /\ ScrapeFrame

\* Lines 151-153 and 185-187: stop_all_requested is read as set in the
\* scroll loop: return data.
scrape_scroll_stop_all(t) ==
    /\ stop_all_requested
    /\ Scrape(t, "scroll", "export")

\* Lines 151 and 185: stop_all_requested is read as not set.
scrape_scroll_not_stopped(t) ==
    /\ ~stop_all_requested
    /\ Scrape(t, "scroll", "scroll_154")

\* Lines 154-156 and 188-190: stop_scrolling_requested is read as set:
\* break, out of the scroll loop (line 156) or out of the PageDown loop and
\* to the head of the scroll loop (line 190).
scrape_scroll_stop_scrolling(t) ==
    /\ stop_scrolling_requested
    /\ \E to \in {"item", "scroll"} : Scrape(t, "scroll_154", to)

\* Lines 154 and 188: stop_scrolling_requested is read as not set; line 157
\* or 191 is awaited.
scrape_scroll_not_broken(t) ==
    /\ ~stop_scrolling_requested
    /\ Scrape(t, "scroll_154", "poll")

\* Lines 157-195: the await returns, whatever the flags have become; the
\* poll ends the loop (lines 159-161, 167-169) or the loop goes on to its
\* next read of stop_all_requested.
scrape_scroll(t) ==
    \E to \in {"scroll", "item"} : Scrape(t, "poll", to)

\* Line 157 raises: the exception leaves scrape_google_maps and reaches
\* line 298.
scrape_scroll_raises(t) ==
    Scrape(t, "poll", "finally")

\* Lines 199-201 and 276-277: stop_all_requested is read as set in the
\* extraction loop: break, return data.
scrape_item_stop_all(t) ==
    /\ stop_all_requested
    /\ Scrape(t, "item", "export")

\* Line 199: stop_all_requested is read as not set.
scrape_item_not_stopped(t) ==
    /\ ~stop_all_requested
    /\ Scrape(t, "item", "card")

\* Lines 202-272: an item is handled, whatever the flags have become, and
\* its record appended.  The record is named by its run and its place in
\* the list.
scrape_item_record(t) ==
    /\ Len(w_data[t]) < MaxRunRecords
    /\ Goto(t, "card", "item")
    /\ w_data' = [w_data EXCEPT ![t] = Append(@, <<t, Len(@) + 1>>)]
    /\ UNCHANGED w_query
    /\ ScrapeFrame

\* Lines 202-275: an item is handled and gives no record (its CardId was
\* seen, its key is a duplicate, or a step of it raised).
scrape_item_skipped(t) ==
    Scrape(t, "card", "item")

\* Lines 198 and 276-277, or 202-203 and 276-277: no card is left, or the
\* list is full: return data.
scrape_items_end(t) ==
    \E from \in {"item", "card"} : Scrape(t, from, "export")

\* Line 198 or 276 raises, or line 204: the exception leaves
\* scrape_google_maps and reaches line 298.
scrape_item_raises(t) ==
    \E from \in {"item", "card"} : Scrape(t, from, "finally")

\* Lines 295 and 279-284: export_to_excel(results, OUTPUT_FILE) replaces the
\* file.
export_to_excel(t) ==
    /\ Goto(t, "export", "finally")
    /\ output_file' = w_data[t]
    /\ written' = [written EXCEPT ![t] = Append(@, w_data[t])]
    /\ UNCHANGED <<ui_pc, query_var, buttons, w_query, w_data, asked_scroll,
                   asked_all, lost, ctl_vars, ui_rest>>

\* Lines 285-286: to_excel raises (the file is open elsewhere); the
\* exception is printed and the file is left as it was.
export_fails(t) ==
    /\ Goto(t, "export", "finally")
    /\ UNCHANGED <<ui_pc, query_var, buttons, w_query, w_data, output_file,
                   ui_hist, ctl_vars, ui_rest>>

\* Line 302: button.config(state=tk.NORMAL).  The locals of the run are not
\* read again, and the model forgets them and what the run wrote.
finally_start(t) ==
    /\ Goto(t, "finally", "finally_scroll")
    /\ start_button' = "normal"
    /\ w_query' = [w_query EXCEPT ![t] = None]
    /\ w_data' = [w_data EXCEPT ![t] = <<>>]
    /\ written' = [written EXCEPT ![t] = <<>>]
    /\ UNCHANGED <<ui_pc, query_var, stop_scroll_button, stop_all_button,
                   output_file, asked_scroll, asked_all, lost, ctl_vars,
                   ui_rest>>

\* Line 303: stop_scroll_button.config(state=tk.DISABLED).
finally_stop_scroll(t) ==
    /\ Goto(t, "finally_scroll", "finally_all")
    /\ stop_scroll_button' = "disabled"
    /\ UNCHANGED <<ui_pc, query_var, start_button, stop_all_button, w_query,
                   w_data, output_file, ui_hist, ctl_vars, ui_rest>>

\* Line 304: stop_all_button.config(state=tk.DISABLED); task() ends.
finally_stop_all(t) ==
    /\ Goto(t, "finally_all", "ended")
    /\ stop_all_button' = "disabled"
    /\ UNCHANGED <<ui_pc, query_var, start_button, stop_scroll_button,
                   w_query, w_data, output_file, ui_hist, ctl_vars, ui_rest>>

NextUI ==
    \/ TypeQuery
    \/ on_start_blank
    \/ on_start
    \/ on_start_331
    \/ on_start_332
    \/ on_start_333
    \/ on_stop_scroll
    \/ on_stop_scroll_338
    \/ on_stop_all
    \/ on_stop_all_343
    \/ on_stop_all_344
    \/ \E t \in Workers : task_clear_scrolling(t)
    \/ \E t \in Workers : task_clear_all(t)
    \/ \E t \in Workers : task_read_query(t)
    \/ \E t \in Workers : scrape_launch(t)
    \/ \E t \in Workers : scrape_launch_raises(t)
    \/ \E t \in Workers : scrape_scroll_stop_all(t)
    \/ \E t \in Workers : scrape_scroll_not_stopped(t)
    \/ \E t \in Workers : scrape_scroll_stop_scrolling(t)
    \/ \E t \in Workers : scrape_scroll_not_broken(t)
    \/ \E t \in Workers : scrape_scroll(t)
    \/ \E t \in Workers : scrape_scroll_raises(t)
    \/ \E t \in Workers : scrape_item_stop_all(t)
    \/ \E t \in Workers : scrape_item_not_stopped(t)
    \/ \E t \in Workers : scrape_item_record(t)
    \/ \E t \in Workers : scrape_item_skipped(t)
    \/ \E t \in Workers : scrape_items_end(t)
    \/ \E t \in Workers : scrape_item_raises(t)
    \/ \E t \in Workers : export_to_excel(t)
    \/ \E t \in Workers : export_fails(t)
    \/ \E t \in Workers : finally_start(t)
    \/ \E t \in Workers : finally_stop_scroll(t)
    \/ \E t \in Workers : finally_stop_all(t)

SpecUI == InitUI /\ [][NextUI]_vars

(***************************************************************************)
(* Claims.                                                                 *)
(***************************************************************************)
\* The index of the first occurrence of line l in the list ls.
FirstIndex(ls, l) == CHOOSE i \in 1..Len(ls) :
                        ls[i] = l /\ \A j \in 1..(i - 1) : ls[j] # l

\* C10: clean_field(clean_field(x)) = clean_field(x); the lines that survive
\* the duplicate removal are the distinct trimmed lines of x, each once, in
\* the order of their first occurrence, and the result is those lines joined
\* by single spaces; an empty or absent input gives the empty string.
C10_CleanIdempotentFirstOrder ==
    /\ cf_pc = "done" => cf_ret2 = cf_ret
    /\ cf_pc \in {"again", "done"} =>
         /\ \A i, j \in 1..Len(cf_cleaned) :
                i # j => cf_cleaned[i] # cf_cleaned[j]
         /\ {cf_cleaned[i] : i \in 1..Len(cf_cleaned)}
              = {cf_lines[i] : i \in 1..Len(cf_lines)}
         /\ \A i, j \in 1..Len(cf_cleaned) :
                i < j => FirstIndex(cf_lines, cf_cleaned[i])
                           < FirstIndex(cf_lines, cf_cleaned[j])
         /\ cf_ret = JoinSpace(cf_cleaned)
         /\ cf_value \in {None, <<>>} => cf_ret = <<>>

\* C10 witness: an input with a repeated line between two different lines
\* has been cleaned twice.
C10_Witness ==
    /\ cf_pc = "done"
    /\ Len(cf_cleaned) >= 2
    /\ Len(cf_lines) > Len(cf_cleaned)
    /\ cf_ret # cf_value

\* C6: one call of gemini_generate issues at most max_attempts requests,
\* one per attempt; it ends by returning a parsed object or None (it has no
\* other exit), and a reply whose text holds no parsable JSON object makes it
\* return None.
C6_BoundedRetry ==
    /\ requests <= max_attempts
    /\ g_pc \in {"off", "loop", "returned"}
    /\ g_pc = "loop" => attempt = requests /\ gemini_data = Pending
    /\ g_pc = "returned" =>
          /\ gemini_data # Pending
          /\ gemini_data # None <=> last_outcome = "object"
    /\ last_outcome \in {"no_json", "bad_json"} =>
          g_pc = "returned" /\ gemini_data = None

\* C6 witness: the call has returned None after max_attempts requests that
\* all failed, the last one by a timeout.
C6_Witness ==
    /\ g_pc = "returned"
    /\ requests = max_attempts
    /\ last_outcome = "timeout"
    /\ gemini_data = None

\* C7 as stated: an HTTP error with a status other than 429 makes the call
\* return None, and only a timeout or a 429 is followed by another request.
C7_Original ==
    /\ last_outcome = "http_error" => g_pc = "returned" /\ gemini_data = None
    /\ (InLoop /\ requests > 0) => last_outcome \in {"timeout", "http_429"}

\* C7 amended: a timeout, an HTTP 429, an HTTP error with any other status
\* and any other exception are each followed by another attempt while
\* attempts remain; once max_attempts requests have failed the call returns
\* None; only a reply received with a success status ends the call earlier.
C7_RetryPolicy ==
    /\ (last_outcome \in FailureOutcomes /\ requests < max_attempts) => InLoop
    /\ (last_outcome \in FailureOutcomes /\ requests = max_attempts) =>
          \/ g_pc = "returned" /\ gemini_data = None
          \/ g_pc = "loop" /\ attempt = max_attempts /\ ENABLED GeminiExhausted
    /\ (g_pc = "returned" /\ requests < max_attempts) =>
          last_outcome \in ReplyOutcomes

\* C7 witness: an HTTP error with another status was retried until the last
\* attempt, whose handler returned None.
C7_Witness ==
    /\ g_pc = "returned"
    /\ last_outcome = "http_error"
    /\ requests = max_attempts
    /\ gemini_data = None

\* The lower-cased six-field tuple of a record.
LowerTuple(r) == <<Lower(r[1]), Lower(r[2]), Lower(r[3]), Lower(r[4]),
                   Lower(r[5]), Lower(r[6])>>

\* C1: no two accumulated records have the same lower-cased six-field
\* tuple; and for every item that reached the dedup step, exactly one
\* accumulated record has its lower-cased tuple, and that record comes from
\* the first item that yielded the tuple.  (The list changes at the dedup
\* step only, so the property is stated where an item or the run ends.)
C1_Dedup ==
    pc \in {"next", "done", "raised"} =>
        LET recs == {<<origin[i], data[i]>> : i \in 1..Len(data)}
            rec_keys == {<<d[1], LowerTuple(d[2])>> : d \in recs}
            item_keys == {<<y[1], LowerTuple(y[2])>> : y \in yielded}
        IN  /\ Len(origin) = Len(data)
            /\ Cardinality({d[2] : d \in rec_keys}) = Len(data)
            /\ recs \subseteq yielded
            /\ {y[2] : y \in item_keys} = {d[2] : d \in rec_keys}
            /\ \A d \in rec_keys : \A y \in item_keys :
                   y[2] = d[2] => d[1] <= y[1]

\* C1 witness: two items yielded the same lower-cased tuple in different
\* spellings and one record stands for them.
C1_Witness ==
    /\ pc = "next"
    /\ outcome = "duplicate"
    /\ \E i \in 1..Len(data) :
          /\ LowerTuple(data[i]) = LowerTuple(fields)
          /\ data[i] # fields

\* C2: once stop_all_requested is set with the checkpoint of item k still
\* ahead, no record comes from an item k or later, the records accumulated
\* by then stay at the front of the list, unchanged and in their order, and
\* the returned list is the accumulated one.
C2_StopSemantics ==
    stop_at >= 0 =>
        /\ \A i \in 1..Len(origin) : origin[i] < stop_at
        /\ Len(data_at_stop) <= Len(data)
        /\ SubSeq(data, 1, Len(data_at_stop)) = data_at_stop
        /\ pc = "done" => result = data

\* C2 witness: a run stopped before the checkpoint of an item k with a
\* record already emitted and cards left has returned that record.
C2_Witness ==
    /\ pc = "done"
    /\ stop_at >= 1
    /\ stop_at < cards
    /\ Len(data_at_stop) >= 1
    /\ result = data_at_stop

\* C3: the scroll loop never sees the same number of cards (below
\* max_cards) at more than max_no_new_cards_scrolls + 1 polls in a row: it
\* is left at the latest at the poll that shows a number for the
\* (max_no_new_cards_scrolls + 1)-th time running.
C3_ScrollConvergence ==
    /\ streak <= max_no_new_cards_scrolls + 1
    /\ pc \in ScrollPcs => streak <= max_no_new_cards_scrolls

\* C3 witness: with no stop flag set, the loop is left at the 7th poll in a
\* row that shows the same number of cards, below max_cards.
C3_Witness ==
    /\ pc = "snapshot"
    /\ streak = max_no_new_cards_scrolls + 1
    /\ polled > 0
    /\ polled < max_cards
    /\ ~stop_all_requested
    /\ ~stop_scrolling_requested

\* C4: the accumulated list never holds more than max_cards records.
C4_BoundedResult == Len(data) <= max_cards

\* C4 witness: the run has returned max_cards records with cards of the
\* snapshot left.
C4_Witness ==
    /\ pc = "done"
    /\ Len(result) = max_cards
    /\ cards > max_cards
    /\ idx < cards

\* An item for which gemini_generate returned None has just been emitted.
EmittedAfterNull ==
    /\ pc = "next"
    /\ outcome = "emitted"
    /\ gemini_data = None

\* C5 as stated: when the AI extractor returned None and a record is
\* emitted, each of its six fields is clean_field of the heuristic value.
C5_Original ==
    EmittedAfterNull =>
        /\ source = "heuristic"
        /\ \E v \in DetailViews : raw = Heuristic(v)
        /\ \A k \in 1..6 : data[Len(data)][k] = clean_field(raw[k])

\* C5 amended: ... name, type, address, phone and website are clean_field
\* of the heuristic values; the email is clean_field of the heuristic email
\* unless the Contact Resolver returned an address, which then is the email.
C5_FallbackFields ==
    EmittedAfterNull =>
        /\ source = "heuristic"
        /\ \E v \in DetailViews : raw = Heuristic(v)
        /\ \A k \in {1, 2, 3, 4, 6} : data[Len(data)][k] = clean_field(raw[k])
        /\ data[Len(data)][5] = IF found_gmail # <<>> THEN found_gmail
                                ELSE clean_field(raw[5])
        /\ found_gmail # <<>> => resolved = clean_field(raw[6])

\* C5 witness: such a record whose heuristic values needed cleaning.
C5_Witness ==
    /\ EmittedAfterNull
    /\ \E k \in 1..6 : raw[k] # clean_field(raw[k])

\* C8: an exception raised while an item is handled (from the derivation of
\* its CardId on) never leaves scrape_google_maps; the item is skipped and
\* the records are kept.
C8_FaultIsolation ==
    /\ [](outcome = "error" => pc = "next" /\ Len(data) = Len(origin))
    /\ [][(ItemPasses \/ pc \in ItemPcs) => pc' # "raised"]_vars

\* The object has the six fields as strings, an empty Email and an absolute
\* Website.
ScenarioObject(obj) ==
    /\ \A k \in 1..6 : obj[k] \notin {Missing, None, NonStr}
    /\ obj[5] = <<>>
    /\ StartsWith(obj[6], <<"h", "t", "t", "p">>)

\* The item was handled with a call of gemini_generate whose requests all
\* got HTTP 429 but the last, which gave a scenario object.
RecoveredFrom429 ==
    /\ pc = "next"
    /\ last_outcome = "object"
    /\ only_429
    /\ requests \in 1..max_attempts
    /\ ScenarioObject(gemini_data)

\* C9 as stated: after k < max_attempts answers 429 and such an object, a
\* record with the cleaned AI values is emitted, the heuristic extractor is
\* not used and the resolver is called with the website.
C9_Original ==
    RecoveredFrom429 =>
        /\ source = "ai"
        /\ resolved = clean_field(gemini_data[6])
        /\ outcome = "emitted"
        /\ \A k \in {1, 2, 3, 4, 6} :
              data[Len(data)][k] = clean_field(gemini_data[k])

\* C9 amended: ... the heuristic extractor is not used, the resolver is
\* called with the cleaned website, and a record with the cleaned AI values
\* is emitted unless a record with the same lower-cased six fields is
\* already accumulated, in which case the item is dropped as a duplicate.
C9_RateLimitRecovery ==
    RecoveredFrom429 =>
        /\ source = "ai"
        /\ resolved = clean_field(gemini_data[6])
        /\ \A k \in {1, 2, 3, 4, 6} : fields[k] = clean_field(gemini_data[k])
        /\ \/ /\ outcome = "emitted"
              /\ data[Len(data)] = fields
              /\ origin[Len(data)] = idx
           \/ /\ outcome = "duplicate"
              /\ \E i \in 1..Len(data) :
                    /\ origin[i] < idx
                    /\ LowerTuple(data[i]) = LowerTuple(fields)

\* C9 witness: the spec's case, two answers 429 and the object at the third
\* request, and the record emitted.
C9_Witness ==
    /\ RecoveredFrom429
    /\ requests = 3
    /\ outcome = "emitted"
    /\ resolved = sHttp

\* Thread t has left the try block of task() (lines 292-300) and is at its
\* finally block.
AfterRun(t) == w_pc[t] = "finally"

\* C11: every run started through the window ends with the result file
\* replaced exactly once, by the records that run accumulated and no
\* others, whatever way the run ends.
C11_ResultSink ==
    \A t \in Workers :
        AfterRun(t) =>
            /\ written[t] = <<w_data[t]>>
            /\ \A i \in 1..Len(w_data[t]) : w_data[t][i][1] = t

\* C17: a request_stop_scrolling() or request_stop_all() made through the
\* window once the stop buttons of a run are enabled is never cleared by
\* that run's worker thread (lines 290-291).
C17_NoLostStop == lost = {}

\* Thread t has been started and has not ended: it is between line 290 and
\* the end of line 304.
Alive(t) == w_pc[t] \notin {"unborn", "ended"}

\* At most one worker thread is inside scrape_google_maps.
OneRunInside == Cardinality({t \in Workers : w_pc[t] \in ScrapePcs}) <= 1

\* No thread is at lines 290-291 while another is inside scrape_google_maps.
NoClearWhilePolling ==
    \A t, u \in Workers :
        t # u /\ w_pc[t] \in {"clear_scrolling", "clear_all"}
            => w_pc[u] \notin ScrapePcs

\* C19: at most one worker thread is inside scrape_google_maps; Start is
\* not accepted (line 330) and no thread is started while the worker thread
\* of an earlier run has not ended; and no thread clears the controller's
\* flags while another is inside scrape_google_maps.
C19_SingleActiveRun ==
    /\ OneRunInside
    /\ ui_pc \in {"start_331", "start_332", "start_333"} =>
           \A t \in Workers : ~Alive(t)
    /\ Cardinality({t \in Workers : Alive(t)}) <= 1
    /\ NoClearWhilePolling

\* The step is one of the coroutine, not a request of the UI thread.
CoroutineStep == pc' # pc \/ presses' # presses

\* C12: the scroll loop ends at one of its checks, and exactly when the
\* check finds its condition: stop_all_requested read as set (lines 151,
\* 185), stop_scrolling_requested read as set (line 154), or a poll that
\* shows max_cards cards or more or is the max_no_new_cards_scrolls-th
\* without growth; the extraction loop follows unless the loop ended for
\* stop_all_requested, and then scrape_google_maps returns an empty list
\* with no card handled.
C12_DiscoveryExit ==
    [][/\ pc \in {"scroll", "page_down"} /\ CoroutineStep =>
            (pc' \notin ScrollPcs <=> stop_all_requested)
       /\ pc = "scroll_154" /\ CoroutineStep =>
            (pc' \notin ScrollPcs <=> stop_scrolling_requested)
       /\ pc = "poll" /\ CoroutineStep =>
            (pc' \notin ScrollPcs <=>
                \/ loaded >= max_cards
                \/ no_new_cards_scrolls' >= max_no_new_cards_scrolls)
       /\ pc \in {"scroll_down", "page_down_188", "press", "settle"} =>
            pc' \in ScrollPcs
       /\ pc \in ScrollPcs /\ pc' \notin ScrollPcs =>
            IF pc \in {"scroll", "page_down"}
            THEN /\ pc' = "done"
                 /\ result' = <<>>
                 /\ data' = <<>>
                 /\ yielded' = {}
                 /\ seen_card_ids' = {}
            ELSE pc' = "snapshot"
       /\ pc = "snapshot" /\ CoroutineStep => pc' = "item" /\ idx' = 0
      ]_vars

\* C13: once stop_all_requested is set, the run ends if its awaits return;
\* and the first read of the flag that follows (line 151 at the loop head,
\* 185 before a key press, 199 before an item) ends the run with the list
\* as it is: no key is pressed, no card is handled, no record is added.
C13_StopAllLiveness ==
    /\ stop_all_requested ~> pc \in {"done", "raised"}
    /\ [][/\ stop_all_requested
          /\ pc \in {"scroll", "page_down", "item"}
          /\ CoroutineStep
          => /\ pc' \in {"done", "raised"}
             /\ pc' = "done" => result' = data
             /\ UNCHANGED <<data, presses, seen_card_ids, yielded, g_vars>>
         ]_vars

\* C13 witness: the flag was set while a card was being handled, after a
\* record had been accumulated, and the run has ended.
C13_Witness ==
    /\ stop_all_requested
    /\ stop_at > 0
    /\ pc = "done"
    /\ Len(result) > 0
    /\ stop_at < cards

\* The step is a poll of the scroll loop: the query of line 157 returned.
PollStep ==
    /\ pc = "poll"
    /\ CoroutineStep
    /\ pc' # "raised"

\* C14 as stated: at a poll, no_new_cards_scrolls is incremented exactly
\* when the poll shows the count of the poll before, is reset to zero when
\* it shows more, and is not incremented at the first poll of the run.
C14_Original ==
    [][PollStep =>
          /\ no_new_cards_scrolls' = no_new_cards_scrolls + 1
                <=> (polled # -1 /\ loaded = polled)
          /\ (polled # -1 /\ loaded > polled) => no_new_cards_scrolls' = 0
          /\ polled = -1 => no_new_cards_scrolls' # no_new_cards_scrolls + 1
      ]_vars

\* C14 amended: a poll that shows fewer than max_cards cards increments
\* no_new_cards_scrolls exactly when it shows the count of the poll before
\* - at the first poll, the initial last_count of 0 - and resets it to zero
\* otherwise; a poll that shows max_cards or more ends the loop and leaves
\* the counter as it is.
C14_CounterInvariant ==
    [][PollStep =>
          LET before == IF polled = -1 THEN 0 ELSE polled
          IN  IF loaded >= max_cards
              THEN no_new_cards_scrolls' = no_new_cards_scrolls
              ELSE /\ no_new_cards_scrolls' = no_new_cards_scrolls + 1
                        <=> loaded = before
                   /\ loaded # before => no_new_cards_scrolls' = 0
      ]_vars

\* C14 witness: the first poll of a run showed no card and was counted.
C14_Witness ==
    /\ pc \in ScrollPcs
    /\ polled = 0
    /\ streak = 1
    /\ no_new_cards_scrolls = 1

\* C15: last_count never decreases while the scroll loop runs.
C15_MonotonicLoadedCount ==
    [][(pc \in ScrollPcs /\ pc' \in ScrollPcs) => (last_count' >= last_count)
      ]_vars

\* The item has been cleaned and has passed line 247.
PastContactGate == pc \in {"dedup", "next"} /\ source # "none"

\* C16: find_gmail_on_website is called exactly when the cleaned email is
\* empty or has no '@' and the cleaned website is not empty and starts with
\* 'http'; the email becomes its result only when that is not empty and is
\* the cleaned email otherwise, also when the resolver raises; the other
\* five fields are the cleaned values; and the item goes on to the dedup
\* step.
C16_ContactGate ==
    PastContactGate =>
        LET cleaned == CleanAll(raw)
            missing == \A i \in 1..Len(cleaned[5]) : cleaned[5][i] # "@"
            absolute == /\ cleaned[6] # <<>>
                        /\ Len(cleaned[6]) >= 4
                        /\ SubSeq(cleaned[6], 1, 4) = <<"h", "t", "t", "p">>
        IN  /\ resolved # None <=> (missing /\ absolute)
            /\ resolved # None => resolved = cleaned[6]
            /\ resolved = None => found_gmail = <<>>
            /\ fields[5] = IF found_gmail # <<>> THEN found_gmail
                           ELSE cleaned[5]
            /\ \A k \in {1, 2, 3, 4, 6} : fields[k] = cleaned[k]
            /\ outcome \in {"none", "emitted", "duplicate"}
            /\ pc = "next" => <<idx, fields>> \in yielded

\* C16 witness: the resolver was called for an item whose email was not
\* empty but had no '@', found nothing, and the record was emitted with the
\* email as it was.
C16_Witness ==
    /\ PastContactGate
    /\ resolved # None
    /\ found_gmail = <<>>
    /\ outcome = "emitted"
    /\ data[Len(data)][5] = <<"?">>

\* C18: the cards handled so far in the extraction loop all got different
\* CardIds, so none of them was skipped at line 205.
C18_CardIdDistinct ==
    pc \in ItemPcs =>
        /\ Cardinality(seen_card_ids) = idx + 1
        /\ outcome # "seen"

====
